---- MODULE Spec2Model ----
(***************************************************************************)
(* Enrichment-and-caching layer of the disaster response backend           *)
(* (src/frontend/src/App.js, lines 428-916): the Supabase-backed TTL cache, *)
(* the geocoder, the location extractor, the image verifier, the bulletin  *)
(* aggregator, the resource locator and the report routes.                 *)
(*                                                                         *)
(* Conventions.  A JavaScript value that may be null/undefined is a        *)
(* sequence of length 0 (absent) or 1 (present).  Free text coming back    *)
(* from a provider is a sequence of one-character strings so that trim()   *)
(* and parseFloat() are computed, not assumed.  Time is Date.now() in      *)
(* milliseconds.  A Supabase call resolves to {data, error}: its outcome   *)
(* is "ok" or "error" (error set, data null).                              *)
(***************************************************************************)
EXTENDS Integers, Sequences, FiniteSets, TLC

VARIABLES
    now,        \* Date.now(), milliseconds
    ticks,      \* number of clock advances so far
    cache,      \* the Supabase table 'cache': per key, its rows [key, value, expires_at]
    reports,    \* rows of the table 'reports', in insertion order
    resources,  \* rows of the table 'resources'
    last,       \* the last completed call or request, with what it did
    lastSet,    \* per key, the arguments of the most recent direct setCache call
    served,     \* per lookup, what the most recent successful lookup returned
    disasters,  \* the Supabase table 'disasters': per id, its row
    reqs,       \* the requests received so far, each with its position and effects
    emitted,    \* the events passed to io.emit, in order
    sockets,    \* per socket id, its connection state and when it connected
    wire,       \* per socket, the events sent to it and not yet handled there
    inbox,      \* per socket, the events its client-side listeners have handled
    ui          \* per client, the state of its App component

\* the state of the runtime around the handlers: table 'disasters', requests
\* in flight, socket.io server and clients
rtVars == <<disasters, reqs, emitted, sockets, wire, inbox, ui>>

vars == <<now, ticks, cache, reports, resources, last, lastSet, served,
          disasters, reqs, emitted, sockets, wire, inbox, ui>>

-----------------------------------------------------------------------------
(* Bounds of the model *)

MaxTicks == 3
MaxReports == 2

(* Program constants *)

DefaultTtlMinutes == 60
DefaultRadius == 10000

-----------------------------------------------------------------------------
(* JavaScript values *)

None == <<>>
Some(v) == <<v>>
IsSome(o) == Len(o) = 1

\* String.prototype.trim on a sequence of characters
Whitespace == {" ", "\n", "\t"}

RECURSIVE TrimStart(_)
TrimStart(s) ==
    IF Len(s) > 0 /\ Head(s) \in Whitespace THEN TrimStart(Tail(s)) ELSE s

RECURSIVE TrimEnd(_)
TrimEnd(s) ==
    IF Len(s) > 0 /\ s[Len(s)] \in Whitespace
    THEN TrimEnd(SubSeq(s, 1, Len(s) - 1))
    ELSE s

trim(s) == TrimEnd(TrimStart(s))

\* the characters of a sequence as one string
RECURSIVE Str(_)
Str(s) == IF Len(s) = 0 THEN "" ELSE Head(s) \o Str(Tail(s))

\* parseFloat / parseInt on whole-number text: an optional sign and the
\* leading digits; NaN when there is none
Digits == {"0", "1", "2", "3", "4", "5", "6", "7", "8", "9"}
NaN == "NaN"

DigitValue(c) ==
    CASE c = "0" -> 0 [] c = "1" -> 1 [] c = "2" -> 2 [] c = "3" -> 3
      [] c = "4" -> 4 [] c = "5" -> 5 [] c = "6" -> 6 [] c = "7" -> 7
      [] c = "8" -> 8 [] c = "9" -> 9

RECURSIVE ParseDigits(_, _)
ParseDigits(s, acc) ==
    IF Len(s) = 0 \/ Head(s) \notin Digits
    THEN acc
    ELSE ParseDigits(Tail(s), acc * 10 + DigitValue(Head(s)))

parseFloat(s) ==
    LET t == TrimStart(s)
        negative == Len(t) > 0 /\ Head(t) = "-"
        body == IF negative THEN Tail(t) ELSE t
    IN  IF Len(body) = 0 \/ Head(body) \notin Digits
        THEN NaN
        ELSE IF negative THEN 0 - ParseDigits(body, 0) ELSE ParseDigits(body, 0)

parseInt(s) == parseFloat(s)

-----------------------------------------------------------------------------
(* TTL cache store: getCache / setCache over the table 'cache' *)

\* .eq('key', key): the rows of the table that carry this key
RowsOf(rows, key) == IF key \in DOMAIN rows THEN rows[key] ELSE {}

\* .single(): the row when exactly one matches, else data = null
Single(rows, key, outcome) ==
    LET hit == RowsOf(rows, key)
    IN  IF outcome = "ok" /\ Cardinality(hit) = 1
        THEN Some(CHOOSE r \in hit : TRUE)
        ELSE None

getCacheNoExpiry(rows, key, t, outcome) ==
    LET data == Single(rows, key, outcome)
    IN  IF IsSome(data) THEN Some(data[1].value) ELSE None

\* variant: an entry is taken as expired half an hour early
getCacheEarlyExpiry(rows, key, t, outcome) ==
    LET data == Single(rows, key, outcome)
    IN  IF IsSome(data) /\ data[1].expires_at > t + 30 * 60 * 1000
        THEN Some(data[1].value)
        ELSE None

getCache(rows, key, t, outcome) ==
    LET data == Single(rows, key, outcome)
    IN  IF IsSome(data) /\ data[1].expires_at > t
        THEN Some(data[1].value)
        ELSE None

\* the default parameter ttlMinutes = 60
TtlMinutes(ttlArg) == IF IsSome(ttlArg) THEN ttlArg[1] ELSE DefaultTtlMinutes

\* .upsert(row): insert, or replace the row with the same primary key
Upsert(rows, row) ==
    [k \in DOMAIN rows \cup {row.key} |-> IF k = row.key THEN {row} ELSE rows[k]]

setCacheKeepExpiry(rows, key, value, ttlArg, t, outcome) ==
    LET old == RowsOf(rows, key)
        expiresAt == IF old = {}
                     THEN t + TtlMinutes(ttlArg) * 60 * 1000
                     ELSE (CHOOSE r \in old : TRUE).expires_at
    IN  IF outcome = "ok"
        THEN Upsert(rows, [key |-> key, value |-> value, expires_at |-> expiresAt])
        ELSE rows

\* variant: an existing row is left as it is (insert, not upsert)
setCacheFirstWins(rows, key, value, ttlArg, t, outcome) ==
    LET expiresAt == t + TtlMinutes(ttlArg) * 60 * 1000
    IN  IF outcome = "ok" /\ RowsOf(rows, key) = {}
        THEN Upsert(rows, [key |-> key, value |-> value, expires_at |-> expiresAt])
        ELSE rows

setCache(rows, key, value, ttlArg, t, outcome) ==
    LET expiresAt == t + TtlMinutes(ttlArg) * 60 * 1000
    IN  IF outcome = "ok"
        THEN Upsert(rows, [key |-> key, value |-> value, expires_at |-> expiresAt])
        ELSE rows

-----------------------------------------------------------------------------
(* Geocoder: geocodeLocation *)

\* what a component call reports: the value it returns, the cache rows it
\* leaves, the cache keys it read and wrote and the providers it called
Outcome(value, rows, reads, writes, calls) ==
    [value |-> value, rows |-> rows, reads |-> reads, writes |-> writes,
     calls |-> calls]

\* coords = { lat: parseFloat(result.lat), lng: parseFloat(result.lon) }
Coords(result) == [lat |-> parseFloat(result.lat), lng |-> parseFloat(result.lon)]

\* variant: the cache is not consulted before the provider
geocodeLocationAlwaysQuery(rows, t, locationName, resp, so) ==
    LET cacheKey == "geocode_" \o locationName
    IN  IF resp.kind = "ok" /\ Len(resp.data) > 0
        THEN Outcome(Some(Coords(resp.data[1])),
                     setCache(rows, cacheKey, Coords(resp.data[1]), None, t, so.set),
                     <<cacheKey>>, <<cacheKey>>, <<"nominatim">>)
        ELSE Outcome(None, rows, <<cacheKey>>, <<>>, <<"nominatim">>)

\* variant: a lookup without a match stores a placeholder position
geocodeLocationCachesMiss(rows, t, locationName, resp, so) ==
    LET cacheKey == "geocode_" \o locationName
        cached == getCache(rows, cacheKey, t, so.get)
    IN  IF IsSome(cached)
        THEN Outcome(cached, rows, <<cacheKey>>, <<>>, <<>>)
        ELSE IF resp.kind = "ok" /\ Len(resp.data) > 0
        THEN Outcome(Some(Coords(resp.data[1])),
                     setCache(rows, cacheKey, Coords(resp.data[1]), None, t, so.set),
                     <<cacheKey>>, <<cacheKey>>, <<"nominatim">>)
        ELSE Outcome(None,
                     setCache(rows, cacheKey, [lat |-> 0, lng |-> 0], None, t, so.set),
                     <<cacheKey>>, <<cacheKey>>, <<"nominatim">>)

\* variant: a failed cache write is treated like a failed lookup
geocodeLocationNeedsStore(rows, t, locationName, resp, so) ==
    LET cacheKey == "geocode_" \o locationName
        cached == getCache(rows, cacheKey, t, so.get)
    IN  IF IsSome(cached)
        THEN Outcome(cached, rows, <<cacheKey>>, <<>>, <<>>)
        ELSE IF resp.kind = "ok" /\ Len(resp.data) > 0 /\ so.set = "ok"
        THEN Outcome(Some(Coords(resp.data[1])),
                     setCache(rows, cacheKey, Coords(resp.data[1]), None, t, so.set),
                     <<cacheKey>>, <<cacheKey>>, <<"nominatim">>)
        ELSE Outcome(None, rows, <<cacheKey>>, <<>>, <<"nominatim">>)

geocodeLocation(rows, t, locationName, resp, so) ==
    LET cacheKey == "geocode_" \o locationName
        cached == getCache(rows, cacheKey, t, so.get)
    IN  IF IsSome(cached)
        THEN Outcome(cached, rows, <<cacheKey>>, <<>>, <<>>)
        ELSE IF resp.kind = "ok" /\ Len(resp.data) > 0
        THEN Outcome(Some(Coords(resp.data[1])),
                     setCache(rows, cacheKey, Coords(resp.data[1]), None, t, so.set),
                     <<cacheKey>>, <<cacheKey>>, <<"nominatim">>)
        ELSE Outcome(None, rows, <<cacheKey>>, <<>>, <<"nominatim">>)

-----------------------------------------------------------------------------
(* Location Extractor: extractLocationWithGemini *)

\* response.data.candidates?.[0]?.content?.parts?.[0]?.text?.trim()
LocationName(resp) == IF IsSome(resp.text) THEN Some(Str(trim(resp.text[1]))) ELSE None

\* if (locationName): undefined and the empty string are falsy
Truthy(o) == IsSome(o) /\ o[1] # ""

extractLocationWithGemini(rows, t, text, resp, so) ==
    LET cacheKey == "extract_location_" \o text
        cached == getCache(rows, cacheKey, t, so.get)
    IN  IF Truthy(cached)
        THEN Outcome(cached, rows, <<cacheKey>>, <<>>, <<>>)
        ELSE IF resp.kind = "ok" /\ Truthy(LocationName(resp))
        THEN Outcome(LocationName(resp),
                     setCache(rows, cacheKey, LocationName(resp)[1], None, t, so.set),
                     <<cacheKey>>, <<cacheKey>>, <<"gemini">>)
        ELSE Outcome(None, rows, <<cacheKey>>, <<>>, <<"gemini">>)

-----------------------------------------------------------------------------
(* Geocode Orchestrator: app.post('/geocode') *)

\* a stage the handler ran, and what it yielded
Stage(fn, o) == [fn |-> fn, value |-> o.value]

Response(status, body, rows, reads, writes, calls, stages) ==
    [status |-> status, body |-> body, rows |-> rows, reads |-> reads,
     writes |-> writes, calls |-> calls, stages |-> stages]

\* variant: the geocoder runs even when no name was extracted
PostGeocodeNoShortCircuit(rows, t, text, llm, geo, soE, soG) ==
    LET e == extractLocationWithGemini(rows, t, text, llm, soE)
        g == geocodeLocation(e.rows, t, IF IsSome(e.value) THEN e.value[1] ELSE "",
                             geo, soG)
    IN  IF ~Truthy(e.value) \/ ~IsSome(g.value)
        THEN Response(400, [error |-> "Could not geocode location"], g.rows,
                      e.reads \o g.reads, e.writes \o g.writes,
                      e.calls \o g.calls,
                      <<Stage("extract", e), Stage("geocode", g)>>)
        ELSE Response(200, [locationName |-> e.value[1], coordinates |-> g.value[1]],
                      g.rows, e.reads \o g.reads, e.writes \o g.writes,
                      e.calls \o g.calls,
                      <<Stage("extract", e), Stage("geocode", g)>>)

\* variant: a failed geocoding stage is answered 200 with the name alone
PostGeocodeLenient(rows, t, text, llm, geo, soE, soG) ==
    LET e == extractLocationWithGemini(rows, t, text, llm, soE)
        g == geocodeLocation(e.rows, t, e.value[1], geo, soG)
    IN  IF ~Truthy(e.value)
        THEN Response(400, [error |-> "Could not extract location"], e.rows,
                      e.reads, e.writes, e.calls, <<Stage("extract", e)>>)
        ELSE Response(200, [locationName |-> e.value[1], coordinates |-> g.value],
                      g.rows, e.reads \o g.reads, e.writes \o g.writes,
                      e.calls \o g.calls,
                      <<Stage("extract", e), Stage("geocode", g)>>)

\* variant: a language-model failure reaches the route's catch
PostGeocodeSurfacesError(rows, t, text, llm, geo, soE, soG) ==
    LET e == extractLocationWithGemini(rows, t, text, llm, soE)
        g == geocodeLocation(e.rows, t, e.value[1], geo, soG)
    IN  IF ~Truthy(e.value) /\ llm.kind = "error" /\ Len(e.calls) > 0
        THEN Response(500, [error |-> "Geocoding failed"], e.rows,
                      e.reads, e.writes, e.calls, <<Stage("extract", e)>>)
        ELSE IF ~Truthy(e.value)
        THEN Response(400, [error |-> "Could not extract location"], e.rows,
                      e.reads, e.writes, e.calls, <<Stage("extract", e)>>)
        ELSE IF ~IsSome(g.value)
        THEN Response(400, [error |-> "Could not geocode location"], g.rows,
                      e.reads \o g.reads, e.writes \o g.writes,
                      e.calls \o g.calls,
                      <<Stage("extract", e), Stage("geocode", g)>>)
        ELSE Response(200, [locationName |-> e.value[1], coordinates |-> g.value[1]],
                      g.rows, e.reads \o g.reads, e.writes \o g.writes,
                      e.calls \o g.calls,
                      <<Stage("extract", e), Stage("geocode", g)>>)

\* variant: each raw text keeps its own geocoding entries
PostGeocodeKeyedByText(rows, t, text, llm, geo, soE, soG) ==
    LET e == extractLocationWithGemini(rows, t, text, llm, soE)
        g == geocodeLocation(e.rows, t, text \o "/" \o e.value[1], geo, soG)
    IN  IF ~Truthy(e.value)
        THEN Response(400, [error |-> "Could not extract location"], e.rows,
                      e.reads, e.writes, e.calls, <<Stage("extract", e)>>)
        ELSE IF ~IsSome(g.value)
        THEN Response(400, [error |-> "Could not geocode location"], g.rows,
                      e.reads \o g.reads, e.writes \o g.writes,
                      e.calls \o g.calls,
                      <<Stage("extract", e), Stage("geocode", g)>>)
        ELSE Response(200, [locationName |-> e.value[1], coordinates |-> g.value[1]],
                      g.rows, e.reads \o g.reads, e.writes \o g.writes,
                      e.calls \o g.calls,
                      <<Stage("extract", e), Stage("geocode", g)>>)

PostGeocode(rows, t, text, llm, geo, soE, soG) ==
    LET e == extractLocationWithGemini(rows, t, text, llm, soE)
        g == geocodeLocation(e.rows, t, e.value[1], geo, soG)
    IN  IF ~Truthy(e.value)
        THEN Response(400, [error |-> "Could not extract location"], e.rows,
                      e.reads, e.writes, e.calls, <<Stage("extract", e)>>)
        ELSE IF ~IsSome(g.value)
        THEN Response(400, [error |-> "Could not geocode location"], g.rows,
                      e.reads \o g.reads, e.writes \o g.writes,
                      e.calls \o g.calls,
                      <<Stage("extract", e), Stage("geocode", g)>>)
        ELSE Response(200, [locationName |-> e.value[1], coordinates |-> g.value[1]],
                      g.rows, e.reads \o g.reads, e.writes \o g.writes,
                      e.calls \o g.calls,
                      <<Stage("extract", e), Stage("geocode", g)>>)

-----------------------------------------------------------------------------
(* Image Verifier: verifyImageWithGemini and app.post('/disasters/:id/verify-image') *)

\* variant: five scores instead of three
MockScoreWide(rnd) == ((rnd * 5) \div 1000) + 7

\* Math.floor(Math.random() * 3) + 7, Math.random() given in thousandths
MockScore(rnd) == ((rnd * 3) \div 1000) + 7

Degraded == [score |-> 5, reasoning |-> "Unable to verify", status |-> "pending"]

\* variant: the fallback result is stored like a computed one
verifyImageCachesFailure(rows, t, imageUrl, resp, rnd, so) ==
    LET cacheKey == "verify_image_" \o imageUrl
        cached == getCache(rows, cacheKey, t, so.get)
        verification == [score |-> MockScore(rnd),
                         reasoning |-> Str(trim(resp.text)),
                         status |-> "verified"]
    IN  IF IsSome(cached)
        THEN Outcome(cached, rows, <<cacheKey>>, <<>>, <<>>)
        ELSE IF resp.kind = "ok"
        THEN Outcome(Some(verification),
                     setCache(rows, cacheKey, verification, None, t, so.set),
                     <<cacheKey>>, <<cacheKey>>, <<"gemini-pro">>)
        ELSE Outcome(Some(Degraded),
                     setCache(rows, cacheKey, Degraded, None, t, so.set),
                     <<cacheKey>>, <<cacheKey>>, <<"gemini-pro">>)

verifyImageWithGemini(rows, t, imageUrl, resp, rnd, so) ==
    LET cacheKey == "verify_image_" \o imageUrl
        cached == getCache(rows, cacheKey, t, so.get)
        verification == [score |-> MockScore(rnd),
                         reasoning |-> Str(trim(resp.text)),
                         status |-> "verified"]
    IN  IF IsSome(cached)
        THEN Outcome(cached, rows, <<cacheKey>>, <<>>, <<>>)
        ELSE IF resp.kind = "ok"
        THEN Outcome(Some(verification),
                     setCache(rows, cacheKey, verification, None, t, so.set),
                     <<cacheKey>>, <<cacheKey>>, <<"gemini-pro">>)
        ELSE Outcome(Some(Degraded), rows, <<cacheKey>>, <<>>, <<"gemini-pro">>)

\* .from('reports').update({verification_status}).eq('image_url', image_url)
UpdateStatus(reps, image_url, status, outcome) ==
    IF outcome = "ok"
    THEN [i \in DOMAIN reps |->
            IF reps[i].image_url = Some(image_url)
            THEN [reps[i] EXCEPT !.verification_status = status]
            ELSE reps[i]]
    ELSE reps

\* variant: only the reports of incident :id are updated
PostVerifyImageOwnIncident(rows, reps, t, id, image_url, resp, rnd, so, upd) ==
    LET v == verifyImageWithGemini(rows, t, image_url, resp, rnd, so)
    IN  [status |-> 200, body |-> v.value[1], rows |-> v.rows,
         reports |-> [i \in DOMAIN reps |->
                        IF reps[i].image_url = Some(image_url)
                           /\ reps[i].disaster_id = id /\ upd = "ok"
                        THEN [reps[i] EXCEPT !.verification_status = v.value[1].status]
                        ELSE reps[i]],
         reads |-> v.reads, writes |-> v.writes, calls |-> v.calls]

\* variant: a fallback result leaves the reports as they are
PostVerifyImageKeepsVerified(rows, reps, t, id, image_url, resp, rnd, so, upd) ==
    LET v == verifyImageWithGemini(rows, t, image_url, resp, rnd, so)
    IN  [status |-> 200, body |-> v.value[1], rows |-> v.rows,
         reports |-> IF v.value[1] = Degraded THEN reps
                     ELSE UpdateStatus(reps, image_url, v.value[1].status, upd),
         reads |-> v.reads, writes |-> v.writes, calls |-> v.calls]

PostVerifyImage(rows, reps, t, id, image_url, resp, rnd, so, upd) ==
    LET v == verifyImageWithGemini(rows, t, image_url, resp, rnd, so)
    IN  [status |-> 200, body |-> v.value[1], rows |-> v.rows,
         reports |-> UpdateStatus(reps, image_url, v.value[1].status, upd),
         reads |-> v.reads, writes |-> v.writes, calls |-> v.calls]

-----------------------------------------------------------------------------
(* Reports: app.post('/reports') *)

\* the row .insert(...).select().single() returns; user_id defaults to citizen1
ReportRow(reps, disaster_id, content, image_url) ==
    [id |-> Len(reps) + 1, disaster_id |-> disaster_id, user_id |-> "citizen1",
     content |-> content, image_url |-> image_url,
     verification_status |-> "pending"]

\* content.substring(0, 50) throws when the body carries no content: the row
\* is inserted by then, and the handler's catch answers 500
PostReports(reps, disaster_id, content, image_url, ins) ==
    IF ins # "ok"
    THEN [status |-> 500, body |-> [error |-> "Failed to create report"],
          reports |-> reps]
    ELSE IF ~IsSome(content)
    THEN [status |-> 500, body |-> [error |-> "Failed to create report"],
          reports |-> Append(reps, ReportRow(reps, disaster_id, content, image_url))]
    ELSE [status |-> 200, body |-> ReportRow(reps, disaster_id, content, image_url),
          reports |-> Append(reps, ReportRow(reps, disaster_id, content, image_url))]

-----------------------------------------------------------------------------
(* Bulletin Aggregator: fetchOfficialUpdates and its route *)

\* the two mock bulletins, stamped new Date()
OfficialUpdates(t) ==
    <<[source |-> "FEMA", title |-> "Emergency Response Activated", timestamp |-> t],
      [source |-> "Red Cross", title |-> "Shelter Operations", timestamp |-> t]>>

fetchOfficialUpdates(rows, t, so) ==
    LET cacheKey == "official_updates"
        cached == getCache(rows, cacheKey, t, so.get)
    IN  IF IsSome(cached)
        THEN Outcome(cached, rows, <<cacheKey>>, <<>>, <<>>)
        ELSE Outcome(Some(OfficialUpdates(t)),
                     setCache(rows, cacheKey, OfficialUpdates(t), None, t, so.set),
                     <<cacheKey>>, <<cacheKey>>, <<"source">>)

\* variant: one snapshot per incident
GetOfficialUpdatesPerIncident(rows, t, id, so) ==
    LET cacheKey == "official_updates_" \o id
        cached == getCache(rows, cacheKey, t, so.get)
    IN  IF IsSome(cached)
        THEN [status |-> 200, body |-> cached[1], rows |-> rows,
              reads |-> <<cacheKey>>, writes |-> <<>>, calls |-> <<>>]
        ELSE [status |-> 200, body |-> OfficialUpdates(t),
              rows |-> setCache(rows, cacheKey, OfficialUpdates(t), None, t, so.set),
              reads |-> <<cacheKey>>, writes |-> <<cacheKey>>,
              calls |-> <<"source">>]

\* app.get('/disasters/:id/official-updates')
GetOfficialUpdates(rows, t, id, so) ==
    LET u == fetchOfficialUpdates(rows, t, so)
    IN  [status |-> 200, body |-> u.value[1], rows |-> u.rows, reads |-> u.reads,
         writes |-> u.writes, calls |-> u.calls]

-----------------------------------------------------------------------------
(* Resource Locator: app.get('/disasters/:id/resources') *)

\* .from('resources').select('*').eq('disaster_id', id), awaited
PlainFilter(res, id, outcome) ==
    IF outcome = "ok"
    THEN [error |-> FALSE, data |-> {r \in res : r.disaster_id = id}]
    ELSE [error |-> TRUE, data |-> {}]

\* if (lat && lng): an absent parameter and the empty string are falsy
Supplied(q) == IsSome(q) /\ Len(q[1]) > 0

\* const { radius = 10000 } = req.query; parseInt(radius)
RadiusMeters(radius) == IF IsSome(radius) THEN parseInt(radius[1]) ELSE DefaultRadius

RpcArgs(id, lat, lng, radius) ==
    [disaster_id |-> id, user_lat |-> parseFloat(lat[1]),
     user_lng |-> parseFloat(lng[1]), radius_meters |-> RadiusMeters(radius)]

ResourcesResponse(status, body, rpcArgs, filtered) ==
    [status |-> status, body |-> body, rpcArgs |-> rpcArgs, filtered |-> filtered]

FetchFailed == [error |-> "Failed to fetch resources"]

\* variant: a failed proximity query is answered with an empty list
GetResourcesEmptyFallback(res, id, lat, lng, radius, rpc, qry) ==
    IF Supplied(lat) /\ Supplied(lng)
    THEN IF rpc.error
         THEN ResourcesResponse(200, {}, Some(RpcArgs(id, lat, lng, radius)), FALSE)
         ELSE ResourcesResponse(200, rpc.data, Some(RpcArgs(id, lat, lng, radius)), FALSE)
    ELSE IF PlainFilter(res, id, qry).error
         THEN ResourcesResponse(500, FetchFailed, None, TRUE)
         ELSE ResourcesResponse(200, PlainFilter(res, id, qry).data, None, TRUE)

\* variant: the proximity query is attempted as soon as lat is supplied
GetResourcesLatOnly(res, id, lat, lng, radius, rpc, qry) ==
    IF Supplied(lat)
    THEN IF rpc.error
         THEN IF PlainFilter(res, id, qry).error
              THEN ResourcesResponse(500, FetchFailed,
                                     Some(RpcArgs(id, lat, lat, radius)), TRUE)
              ELSE ResourcesResponse(200, PlainFilter(res, id, qry).data,
                                     Some(RpcArgs(id, lat, lat, radius)), TRUE)
         ELSE ResourcesResponse(200, rpc.data, Some(RpcArgs(id, lat, lat, radius)), FALSE)
    ELSE IF PlainFilter(res, id, qry).error
         THEN ResourcesResponse(500, FetchFailed, None, TRUE)
         ELSE ResourcesResponse(200, PlainFilter(res, id, qry).data, None, TRUE)

GetResources(res, id, lat, lng, radius, rpc, qry) ==
    IF Supplied(lat) /\ Supplied(lng)
    THEN IF rpc.error
         THEN IF PlainFilter(res, id, qry).error
              THEN ResourcesResponse(500, FetchFailed,
                                     Some(RpcArgs(id, lat, lng, radius)), TRUE)
              ELSE ResourcesResponse(200, PlainFilter(res, id, qry).data,
                                     Some(RpcArgs(id, lat, lng, radius)), TRUE)
         ELSE ResourcesResponse(200, rpc.data, Some(RpcArgs(id, lat, lng, radius)), FALSE)
    ELSE IF PlainFilter(res, id, qry).error
         THEN ResourcesResponse(500, FetchFailed, None, TRUE)
         ELSE ResourcesResponse(200, PlainFilter(res, id, qry).data, None, TRUE)

-----------------------------------------------------------------------------
(* Inputs *)

\* clock advances: half an hour (milliseconds)
TickSteps == {30 * 60 * 1000}

\* direct cache calls
CacheKeys == {"geocode_NY", "official_updates"}
CacheValues == {"v1", "v2"}
TtlArgs == {None, Some(1), Some(30)}

StoreOk == {"ok"}
StoreOutcomes == {"ok", "error"}

\* the outcomes of a component's cache read and cache write
CacheOk == [get : StoreOk, set : StoreOk]
CacheOutcomes == [get : StoreOutcomes, set : StoreOutcomes]

\* request bodies of POST /geocode
Texts == {"Flooding near NY"}

\* what the language model answers: a transport error, a response without
\* candidates, or a response whose first part carries this text
LlmResponses ==
    {[kind |-> "error", text |-> None], [kind |-> "ok", text |-> None]}
    \cup {[kind |-> "ok", text |-> Some(x)] :
            x \in {<<" ", "N", "Y", "\n">>, <<" ">>}}

\* the place names geocodeLocation is called with
Names == {"NY", "LA"}

\* what Nominatim answers: a transport error, or the list of matches (limit 1)
GeoResponses ==
    {[kind |-> "error", data |-> <<>>], [kind |-> "ok", data |-> <<>>],
     [kind |-> "ok", data |-> <<[lat |-> <<"4", "1">>, lon |-> <<"-", "7", "4">>]>>],
     [kind |-> "ok", data |-> <<[lat |-> <<"3", "4">>, lon |-> <<"-", "1", "1", "8">>]>>]}

\* incidents and image URLs
DisasterIds == {"d1", "d2"}
Urls == {"u1", "u2"}

\* what the vision model answers: a failure, or the text of its response
VisionResponses ==
    {[kind |-> "error", text |-> <<>>],
     [kind |-> "ok", text |-> <<" ", "r", "e", "a", "l", "\n">>]}

\* Math.random(), in thousandths
Randoms == {0, 999}

\* bodies of POST /reports
ReportUrls == {None} \cup {Some(u) : u \in Urls}
ReportContents == {Some("water rising")}

\* rows the table 'resources' may hold
ResourceRows ==
    {[id |-> 1, disaster_id |-> "d1"], [id |-> 2, disaster_id |-> "d1"],
     [id |-> 3, disaster_id |-> "d2"]}

\* query parameters of GET /disasters/:id/resources
LatLngParams == {None, Some(<<>>), Some(<<"4", "1">>), Some(<<"-", "7", "4">>), Some(<<"x">>)}
RadiusParams == {None, Some(<<"5", "0", "0">>)}

\* what supabase.rpc('get_nearby_resources', ...) resolves to: an error, or
\* some of the incident's resources
RpcResults(res, id) ==
    {[error |-> TRUE, data |-> {}]}
    \cup {[error |-> FALSE, data |-> d] : d \in SUBSET {r \in res : r.disaster_id = id}}

-----------------------------------------------------------------------------
(* Initial state: empty tables, clock at 0 *)

NoCall == [op |-> "none"]

\* useState(null) for selectedDisaster, useState([]) for socialMedia; fetch is
\* the request of selectDisaster whose answer the component still awaits
AppState == [selectedDisaster |-> None, socialMedia |-> <<>>, fetch |-> None]

\* socket ids the socket.io server may see; each connects at most once
Clients == {"s1", "s2"}

\* no incident stored, no request received, no socket connected
RtInit ==
    /\ disasters = <<>>
    /\ reqs = <<>>
    /\ emitted = <<>>
    /\ sockets = [c \in Clients |-> [state |-> "new", since |-> 0, until |-> 0]]
    /\ wire = [c \in Clients |-> <<>>]
    /\ inbox = [c \in Clients |-> <<>>]
    /\ ui = [c \in Clients |-> AppState]

Init ==
    /\ now = 0
    /\ ticks = 0
    /\ cache = <<>>
    /\ reports = <<>>
    /\ resources = {}
    /\ last = NoCall
    /\ lastSet = [k \in CacheKeys |-> None]
    /\ served = [geo |-> [n \in Names |-> None],
                 ext |-> [x \in Texts |-> None],
                 req |-> [x \in Texts |-> None]]
    /\ RtInit

\* the same, with any content of the table 'resources'
InitRes ==
    /\ now = 0
    /\ ticks = 0
    /\ cache = <<>>
    /\ reports = <<>>
    /\ resources \in SUBSET ResourceRows
    /\ last = NoCall
    /\ lastSet = [k \in CacheKeys |-> None]
    /\ served = [geo |-> [n \in Names |-> None],
                 ext |-> [x \in Texts |-> None],
                 req |-> [x \in Texts |-> None]]
    /\ RtInit

Tick(d) ==
    /\ ticks < MaxTicks
    /\ now' = now + d
    /\ ticks' = ticks + 1
    /\ UNCHANGED <<cache, reports, resources, last, lastSet, served>>
    /\ UNCHANGED rtVars

-----------------------------------------------------------------------------
(* Direct calls of the cache helpers *)

SetCacheCall(key, value, ttlArg, outcome) ==
    /\ cache' = setCache(cache, key, value, ttlArg, now, outcome)
    /\ lastSet' = [lastSet EXCEPT ![key] =
                      Some([value |-> value, ttl |-> ttlArg, at |-> now])]
    /\ last' = [op |-> "setCache", key |-> key, at |-> now]
    /\ UNCHANGED <<now, ticks, reports, resources, served>>
    /\ UNCHANGED rtVars

GetCacheCall(key, outcome) ==
    /\ last' = [op |-> "getCache", key |-> key, at |-> now,
                seen |-> lastSet[key],
                value |-> getCache(cache, key, now, outcome)]
    /\ UNCHANGED <<now, ticks, cache, reports, resources, lastSet, served>>
    /\ UNCHANGED rtVars

NextCache ==
    \/ \E d \in TickSteps : Tick(d)
    \/ \E k \in CacheKeys, v \in CacheValues, ttl \in TtlArgs, o \in StoreOk :
          SetCacheCall(k, v, ttl, o)
    \/ \E k \in CacheKeys, o \in StoreOk : GetCacheCall(k, o)

SpecCache == Init /\ [][NextCache]_vars

-----------------------------------------------------------------------------
(* Geocoding requests *)

\* the end of the 60-minute window that begins at time t
WindowEnd(t) == t + 60 * 60 * 1000

Min(a, b) == IF a < b THEN a ELSE b

Called(calls, provider) == \E i \in 1..Len(calls) : calls[i] = provider

\* bookkeeping: a lookup that computed its value from the provider opens a
\* window for that value at the time of the call
Opened(book, k, value, calls, provider, t) ==
    IF IsSome(value) /\ Called(calls, provider)
    THEN [book EXCEPT ![k] = Some([value |-> value[1], until |-> WindowEnd(t)])]
    ELSE book

\* what an earlier lookup leads one to expect now: its value while its
\* window lasts, nothing afterwards
Expected(entry, t) ==
    IF IsSome(entry) /\ t < entry[1].until THEN Some(entry[1].value) ELSE None

\* bookkeeping: what the providers handed to a call that reached them
GeoAnswer(geo) ==
    IF geo.kind = "ok" /\ Len(geo.data) > 0 THEN Some(Coords(geo.data[1])) ELSE None

LlmAnswer(llm) ==
    IF llm.kind = "ok" /\ Truthy(LocationName(llm)) THEN LocationName(llm) ELSE None

VisionAnswer(resp, rnd) ==
    IF resp.kind = "ok"
    THEN [score |-> MockScore(rnd), reasoning |-> Str(trim(resp.text)),
          status |-> "verified"]
    ELSE Degraded

\* geocodeLocation(location_name), as any route calls it
GeocodeLocationCall(name, geo, so) ==
    \E g \in {geocodeLocation(cache, now, name, geo, so)} :
        /\ cache' = g.rows
        /\ last' = [op |-> "geocodeLocation", arg |-> name, value |-> g.value,
                    reads |-> g.reads, writes |-> g.writes, calls |-> g.calls,
                    expect |-> Expected(served.geo[name], now), so |-> so,
                    answer |-> IF Called(g.calls, "nominatim") THEN GeoAnswer(geo)
                               ELSE None,
                    provider |-> IF Called(g.calls, "nominatim") THEN geo.kind
                                 ELSE "none",
                    afterMiss |-> (last.op = "geocodeLocation" /\ last.arg = name
                                    /\ last.value = None)]
        /\ served' = [served EXCEPT
                        !.geo = Opened(served.geo, name, g.value, g.calls,
                                       "nominatim", now)]
        /\ UNCHANGED <<now, ticks, reports, resources, lastSet>>
        /\ UNCHANGED rtVars

\* the value a stage of the handler yielded, absent when the stage did not run
StageValue(stages, i) == IF Len(stages) >= i THEN stages[i].value ELSE None

\* POST /geocode {text}
PostGeocodeRequest(text, llm, geo, soE, soG) ==
    \E r \in {PostGeocode(cache, now, text, llm, geo, soE, soG)} :
    \E ext \in {Opened(served.ext, text, StageValue(r.stages, 1), r.calls,
                       "gemini", now)} :
    \E geoBook \in {IF IsSome(StageValue(r.stages, 1))
                    THEN Opened(served.geo, StageValue(r.stages, 1)[1],
                                StageValue(r.stages, 2), r.calls, "nominatim", now)
                    ELSE served.geo} :
        /\ cache' = r.rows
        /\ last' = [op |-> "POST /geocode", arg |-> text, status |-> r.status,
                    body |-> r.body, reads |-> r.reads, writes |-> r.writes,
                    calls |-> r.calls, stages |-> r.stages,
                    expect |-> Expected(served.req[text], now),
                    llm |-> llm.kind, soE |-> soE, soG |-> soG,
                    geo |-> IF Called(r.calls, "nominatim") THEN geo.kind ELSE "none",
                    expectGeo |-> IF IsSome(StageValue(r.stages, 1))
                                  THEN Expected(served.geo[StageValue(r.stages, 1)[1]],
                                                now)
                                  ELSE None,
                    answers |->
                        [llm |-> IF Called(r.calls, "gemini") THEN LlmAnswer(llm)
                                 ELSE None,
                         geo |-> IF Called(r.calls, "nominatim") THEN GeoAnswer(geo)
                                 ELSE None]]
        /\ served' =
              [geo |-> geoBook,
               ext |-> ext,
               req |-> IF r.status = 200 /\ IsSome(ext[text])
                                /\ IsSome(geoBook[r.body.locationName])
                       THEN [served.req EXCEPT ![text] =
                               Some([value |-> r.body,
                                     until |-> Min(ext[text][1].until,
                                                   geoBook[r.body.locationName][1].until)])]
                       ELSE served.req]
        /\ UNCHANGED <<now, ticks, reports, resources, lastSet>>
        /\ UNCHANGED rtVars

Next ==
    \/ \E d \in TickSteps : Tick(d)
    \/ \E n \in Names, geo \in GeoResponses, so \in CacheOk :
          GeocodeLocationCall(n, geo, so)
    \/ \E x \in Texts, llm \in LlmResponses, geo \in GeoResponses,
          soE \in CacheOk, soG \in CacheOk :
          PostGeocodeRequest(x, llm, geo, soE, soG)

Spec == Init /\ [][Next]_vars

-----------------------------------------------------------------------------
(* Image verification and report requests *)

VerifyOp == "POST /disasters/:id/verify-image"

\* POST /disasters/:id/verify-image {image_url}
PostVerifyImageRequest(id, image_url, resp, rnd, so, upd) ==
    \E r \in {PostVerifyImage(cache, reports, now, id, image_url, resp, rnd, so, upd)} :
        /\ cache' = r.rows
        /\ reports' = r.reports
        /\ last' = [op |-> VerifyOp, id |-> id, arg |-> image_url,
                    status |-> r.status, body |-> r.body, reads |-> r.reads,
                    writes |-> r.writes, calls |-> r.calls, vision |-> resp.kind,
                    so |-> so,
                    answer |-> IF Len(r.calls) > 0 THEN Some(VisionAnswer(resp, rnd))
                               ELSE None,
                    afterDegraded |-> (last.op = VerifyOp /\ last.arg = image_url
                                        /\ last.body = Degraded),
                    reset |-> {i \in 1..Len(reports) :
                                  /\ reports[i].verification_status = "verified"
                                  /\ r.reports[i].verification_status = "pending"}]
        /\ UNCHANGED <<now, ticks, resources, lastSet, served>>
        /\ UNCHANGED rtVars

\* POST /reports {disaster_id, content, image_url}
PostReportsRequest(disaster_id, content, image_url, ins) ==
    \E r \in {PostReports(reports, disaster_id, content, image_url, ins)} :
        /\ Len(reports) < MaxReports
        /\ reports' = r.reports
        /\ last' = [op |-> "POST /reports", status |-> r.status, body |-> r.body]
        /\ UNCHANGED <<now, ticks, cache, resources, lastSet, served>>
        /\ UNCHANGED rtVars

NextVerify ==
    \/ \E id \in DisasterIds, u \in Urls, resp \in VisionResponses, rnd \in Randoms,
          so \in CacheOk, upd \in StoreOk :
          PostVerifyImageRequest(id, u, resp, rnd, so, upd)
    \/ \E d \in DisasterIds, c \in ReportContents, u \in ReportUrls, ins \in StoreOk :
          PostReportsRequest(d, c, u, ins)

SpecVerify == Init /\ [][NextVerify]_vars

NextImage ==
    \/ \E d \in TickSteps : Tick(d)
    \/ \E id \in DisasterIds, u \in Urls, resp \in VisionResponses, rnd \in Randoms,
          so \in CacheOk, upd \in StoreOk :
          PostVerifyImageRequest(id, u, resp, rnd, so, upd)

SpecImage == Init /\ [][NextImage]_vars

-----------------------------------------------------------------------------
(* Resource and bulletin requests *)

\* GET /disasters/:id/resources?lat&lng&radius
GetResourcesRequest(id, lat, lng, radius, rpc, qry) ==
    \E r \in {GetResources(resources, id, lat, lng, radius, rpc, qry)} :
        /\ last' = [op |-> "GET /disasters/:id/resources", id |-> id, lat |-> lat,
                    lng |-> lng, radius |-> radius, rpc |-> rpc, qry |-> qry,
                    status |-> r.status, body |-> r.body, rpcArgs |-> r.rpcArgs,
                    filtered |-> r.filtered]
        /\ UNCHANGED <<now, ticks, cache, reports, resources, lastSet, served>>
        /\ UNCHANGED rtVars

NextRes ==
    \E id \in DisasterIds, lat \in LatLngParams, lng \in LatLngParams,
       radius \in RadiusParams, qry \in StoreOutcomes :
       \E rpc \in RpcResults(resources, id) :
          GetResourcesRequest(id, lat, lng, radius, rpc, qry)

SpecRes == InitRes /\ [][NextRes]_vars

\* GET /disasters/:id/official-updates
GetOfficialUpdatesRequest(id, so) ==
    \E r \in {GetOfficialUpdates(cache, now, id, so)} :
        /\ cache' = r.rows
        /\ last' = [op |-> "GET /disasters/:id/official-updates", id |-> id,
                    status |-> r.status, body |-> r.body, reads |-> r.reads,
                    writes |-> r.writes, calls |-> r.calls, so |-> so,
                    answer |-> IF Len(r.calls) > 0 THEN Some(OfficialUpdates(now))
                               ELSE None]
        /\ UNCHANGED <<now, ticks, reports, resources, lastSet, served>>
        /\ UNCHANGED rtVars

-----------------------------------------------------------------------------
(* The cached components with a cache store whose calls may fail *)

\* the requests replayed against the failing store: one place, one image,
\* one incident, and per provider a failure, an empty answer and an answer
FaultNames == {"NY"}
FaultLlmResponses ==
    {r \in LlmResponses :
        r.kind = "error" \/ r.text \in {Some(<<" ", "N", "Y", "\n">>), Some(<<" ">>)}}
FaultGeoResponses ==
    {r \in GeoResponses : Len(r.data) > 0 => r.data[1].lat = <<"4", "1">>}
FaultUrls == {"u1"}
FaultIds == {"d1"}
FaultRandoms == {999}

NextFault ==
    \/ \E n \in FaultNames, geo \in FaultGeoResponses, so \in CacheOutcomes :
          GeocodeLocationCall(n, geo, so)
    \/ \E x \in Texts, llm \in FaultLlmResponses, geo \in FaultGeoResponses,
          soE \in CacheOutcomes, soG \in CacheOutcomes :
          PostGeocodeRequest(x, llm, geo, soE, soG)
    \/ \E id \in FaultIds, u \in FaultUrls, resp \in VisionResponses,
          rnd \in FaultRandoms, so \in CacheOutcomes, upd \in StoreOk :
          PostVerifyImageRequest(id, u, resp, rnd, so, upd)
    \/ \E id \in FaultIds, so \in CacheOutcomes :
          GetOfficialUpdatesRequest(id, so)

SpecFault == Init /\ [][NextFault]_vars

-----------------------------------------------------------------------------
(* Incidents: the table 'disasters', its routes and the events they emit *)

\* const { ..., owner_id = 'netrunnerX' } = req.body
OwnerId(o) == IF IsSome(o) THEN o[1] ELSE "netrunnerX"

AuditEntry(action, owner, t) ==
    [action |-> action, user_id |-> owner, timestamp |-> t]

\* location = `POINT(${coords.lng} ${coords.lat})`, null without coordinates
Point(coords) ==
    IF IsSome(coords) THEN Some(<<"POINT", coords[1].lng, coords[1].lat>>) ELSE None

\* .from('disasters').insert({...}).select().single(); title stands for the
\* fields the handler passes through untouched (title, description, tags)
InsertDisaster(tbl, id, fields, outcome) ==
    IF outcome = "ok"
    THEN LET row == [id |-> id, title |-> fields.title,
                     location_name |-> fields.location_name,
                     location |-> fields.location, owner_id |-> fields.owner_id,
                     audit_trail |-> fields.audit_trail]
         IN  [error |-> FALSE, data |-> Some(row), tbl |-> (id :> row) @@ tbl]
    ELSE [error |-> TRUE, data |-> None, tbl |-> tbl]

\* .from('disasters').select('audit_trail').eq('id', id).single(): data only
SelectTrail(tbl, id, outcome) ==
    IF outcome = "ok" /\ id \in DOMAIN tbl
    THEN Some([audit_trail |-> tbl[id].audit_trail])
    ELSE None

\* variant: the trail is rebuilt from the update alone
NewAuditTrailReset(current, owner, t) == <<AuditEntry("update", owner, t)>>

\* [...(current?.audit_trail || []), {action: 'update', user_id, timestamp}]
NewAuditTrail(current, owner, t) ==
    (IF IsSome(current) THEN current[1].audit_trail ELSE <<>>)
        \o <<AuditEntry("update", owner, t)>>

\* .from('disasters').update({...}).eq('id', id).select().single(): with no
\* row of that id, single() reports an error
\* variant: a null location leaves the stored one in place
UpdateDisasterKeepsLocation(tbl, id, fields, outcome) ==
    IF outcome = "ok" /\ id \in DOMAIN tbl
    THEN LET row == [tbl[id] EXCEPT !.title = fields.title,
                                     !.location_name = fields.location_name,
                                     !.location = IF IsSome(fields.location)
                                                  THEN fields.location ELSE @,
                                     !.audit_trail = fields.audit_trail]
         IN  [error |-> FALSE, data |-> Some(row), tbl |-> [tbl EXCEPT ![id] = row]]
    ELSE [error |-> TRUE, data |-> None, tbl |-> tbl]

UpdateDisaster(tbl, id, fields, outcome) ==
    IF outcome = "ok" /\ id \in DOMAIN tbl
    THEN LET row == [tbl[id] EXCEPT !.title = fields.title,
                                     !.location_name = fields.location_name,
                                     !.location = fields.location,
                                     !.audit_trail = fields.audit_trail]
         IN  [error |-> FALSE, data |-> Some(row), tbl |-> [tbl EXCEPT ![id] = row]]
    ELSE [error |-> TRUE, data |-> None, tbl |-> tbl]

\* .from('disasters').delete().eq('id', id): no error when no row matches
DeleteDisaster(tbl, id, outcome) ==
    IF outcome = "ok"
    THEN [error |-> FALSE, tbl |-> [k \in DOMAIN tbl \ {id} |-> tbl[k]]]
    ELSE [error |-> TRUE, tbl |-> tbl]

\* what a handler does once its last awaited call has resolved, in order
Emit(name, payload) == [kind |-> "emit", name |-> name, payload |-> payload]
Respond(status, body) == [kind |-> "response", status |-> status, body |-> body]

\* variant: the event is emitted whether or not the insert succeeded
PostDisastersInsertedAlwaysEmits(res) ==
    IF res.error
    THEN <<Emit("disaster_updated", [action |-> "create", disaster |-> None]),
           Respond(500, [error |-> "Failed to create disaster"])>>
    ELSE <<Emit("disaster_updated", [action |-> "create", disaster |-> res.data[1]]),
           Respond(200, res.data[1])>>

\* app.post('/disasters') after the insert: if (error) throw; emit; res.json
PostDisastersInserted(res) ==
    IF res.error
    THEN <<Respond(500, [error |-> "Failed to create disaster"])>>
    ELSE <<Emit("disaster_updated", [action |-> "create", disaster |-> res.data[1]]),
           Respond(200, res.data[1])>>

\* app.put('/disasters/:id') after the update
PutDisastersUpdated(res) ==
    IF res.error
    THEN <<Respond(500, [error |-> "Failed to update disaster"])>>
    ELSE <<Emit("disaster_updated", [action |-> "update", disaster |-> res.data[1]]),
           Respond(200, res.data[1])>>

\* variant: a failure while emitting fails the request
DeleteDisastersDeletedEmitFails(id, res) ==
    IF res.error
    THEN <<Respond(500, [error |-> "Failed to delete disaster"])>>
    ELSE <<Emit("disaster_updated", [action |-> "delete", id |-> id]),
           Respond(500, [error |-> "Failed to delete disaster"])>>

\* app.delete('/disasters/:id') after the delete
DeleteDisastersDeleted(id, res) ==
    IF res.error
    THEN <<Respond(500, [error |-> "Failed to delete disaster"])>>
    ELSE <<Emit("disaster_updated", [action |-> "delete", id |-> id]),
           Respond(200, [message |-> "Disaster deleted successfully"])>>

\* getMockSocialMediaData(): four posts stamped new Date()
MockSocialMediaData(t) ==
    <<[post |-> "#floodrelief Need food in NYC Lower East Side",
       user |-> "citizen1", timestamp |-> t],
      [post |-> "SOS: Family trapped in Manhattan basement #emergency",
       user |-> "citizen2", timestamp |-> t],
      [post |-> "Red Cross shelter at 42nd Street has space #disaster",
       user |-> "reliefworker1", timestamp |-> t],
      [post |-> "URGENT: Medical supplies needed in Brooklyn #help",
       user |-> "medic1", timestamp |-> t]>>

\* variant: the response is sent first and no event follows
GetSocialMediaSilent(id, t) == <<Respond(200, MockSocialMediaData(t))>>

\* app.get('/disasters/:id/social-media'): no awaited call
GetSocialMedia(id, t) ==
    <<Emit("social_media_updated", [disaster_id |-> id, data |-> MockSocialMediaData(t)]),
      Respond(200, MockSocialMediaData(t))>>

-----------------------------------------------------------------------------
(* socket.io: io.emit, connections, and the client's listeners *)

\* variant: the event goes only to sockets that joined a room, and none did
IoEmitToRoom(log, w, conns, ev, by) ==
    [log |-> Append(log, [name |-> ev.name, payload |-> ev.payload, by |-> by]),
     w |-> w]

\* io.emit(name, payload): the event is written to every socket connected at
\* that moment; the call returns at once and reports nothing to the handler
IoEmit(log, w, conns, ev, by) ==
    [log |-> Append(log, [name |-> ev.name, payload |-> ev.payload, by |-> by]),
     w |-> [c \in DOMAIN w |->
              IF conns[c].state = "open" THEN Append(w[c], Len(log) + 1) ELSE w[c]]]

\* the io.emit calls of a handler's effects, in order
Emits(fx) == SelectSeq(fx, LAMBDA e : e.kind = "emit")

RECURSIVE Broadcast(_, _, _, _, _)
Broadcast(log, w, conns, evs, by) ==
    IF evs = <<>>
    THEN [log |-> log, w |-> w]
    ELSE LET r == IoEmit(log, w, conns, Head(evs), by)
         IN  Broadcast(r.log, r.w, conns, Tail(evs), by)

\* variant: a new connection is sent the events emitted so far
OnConnectionReplay(w, c, log) == [w EXCEPT ![c] = [k \in 1..Len(log) |-> k]]

\* io.on('connection', ...): the handler logs and registers a disconnect logger
OnConnection(w, c, log) == w

\* variant: the listener keeps the list when the event is for another incident
\* than the one selected
OnSocialMediaUpdatedForSelected(st, data) ==
    IF st.selectedDisaster = Some(data.disaster_id)
    THEN [st EXCEPT !.socialMedia = data.data]
    ELSE st

\* socket.on('social_media_updated', (data) => { setSocialMedia(data.data) })
OnSocialMediaUpdated(st, data) == [st EXCEPT !.socialMedia = data.data]

\* what a listener leaves of the component's state; 'disaster_updated' reloads
\* the list of incidents, which is no part of AppState
Listen(st, ev) ==
    IF ev.name = "social_media_updated" THEN OnSocialMediaUpdated(st, ev.payload)
    ELSE st

\* socket.on('disaster_updated', ...) and socket.on('social_media_updated', ...):
\* the listeners look at no field of the event before acting on it
ClientHandles(ev) == ev.name \in {"disaster_updated", "social_media_updated"}

Connect(c) ==
    /\ sockets[c].state = "new"
    /\ sockets' = [sockets EXCEPT ![c] =
                      [state |-> "open", since |-> Len(emitted), until |-> 0]]
    /\ wire' = OnConnection(wire, c, emitted)
    /\ UNCHANGED <<now, ticks, cache, reports, resources, last, lastSet, served,
                   disasters, reqs, emitted, inbox, ui>>

Disconnect(c) ==
    /\ sockets[c].state = "open"
    /\ sockets' = [sockets EXCEPT ![c] =
                      [state |-> "closed", since |-> @.since, until |-> Len(emitted)]]
    /\ wire' = [wire EXCEPT ![c] = <<>>]
    /\ UNCHANGED <<now, ticks, cache, reports, resources, last, lastSet, served,
                   disasters, reqs, emitted, inbox, ui>>

\* the client receives the next event sent to its socket
Deliver(c) ==
    /\ sockets[c].state = "open"
    /\ wire[c] # <<>>
    /\ wire' = [wire EXCEPT ![c] = Tail(@)]
    /\ inbox' = [inbox EXCEPT ![c] =
                    IF ClientHandles(emitted[Head(wire[c])])
                    THEN Append(@, Head(wire[c])) ELSE @]
    /\ ui' = [ui EXCEPT ![c] = Listen(@, emitted[Head(wire[c])])]
    /\ UNCHANGED <<now, ticks, cache, reports, resources, last, lastSet, served,
                   disasters, reqs, emitted, sockets>>

-----------------------------------------------------------------------------
(* Requests to the incident routes, one awaited call per step *)

\* requests the server receives in one run
MaxReqs == 3

\* ids the database gives to inserted incidents, in order
IdSeq == <<"d1", "d2">>

\* bodies and parameters of the requests: an incident is created with or
\* without a place name, and updated or deleted by id
Titles == {"Flood"}
LocationNames == {None, Some("NY")}
Owners == {None, Some("reliefAdmin")}
TargetIds == {"d1"}

Done(i) == reqs[i].pc = "done"

\* positions of a request's effects of one kind
At(i, kind) == {k \in 1..Len(reqs[i].fx) : reqs[i].fx[k].kind = kind}
Wrote(ok, id) == [kind |-> "write", ok |-> ok, id |-> id]

\* incidents inserted so far
Inserted ==
    {i \in 1..Len(reqs) :
        /\ reqs[i].route = "POST /disasters"
        /\ \E k \in 1..Len(reqs[i].fx) :
              reqs[i].fx[k].kind = "write" /\ reqs[i].fx[k].ok}

\* the handler's last awaited call has resolved: it runs to its end
Conclude(i, fx) ==
    \E b \in {Broadcast(emitted, wire, sockets, Emits(fx), i)} :
        /\ reqs' = [reqs EXCEPT ![i] = [@ EXCEPT !.pc = "done", !.fx = @ \o fx]]
        /\ emitted' = b.log
        /\ wire' = b.w

Receive(route, args, pc, loc) ==
    /\ Len(reqs) < MaxReqs
    /\ reqs' = Append(reqs, [route |-> route, args |-> args, pc |-> pc,
                             loc |-> loc, fx |-> <<>>])

\* POST /disasters {title, location_name, owner_id}
ReceivePostDisasters(title, location_name, owner) ==
    /\ Receive("POST /disasters",
               [id |-> "", title |-> title, location_name |-> location_name,
                owner_id |-> OwnerId(owner)],
               IF Truthy(location_name) THEN "geocode" ELSE "insert",
               [location |-> None, coords |-> None,
                audit_trail |-> <<AuditEntry("create", OwnerId(owner), now)>>])
    /\ UNCHANGED <<now, ticks, cache, reports, resources, last, lastSet, served,
                   disasters, emitted, sockets, wire, inbox, ui>>

\* PUT /disasters/:id {title, location_name, owner_id}
ReceivePutDisasters(id, title, location_name, owner) ==
    /\ Receive("PUT /disasters/:id",
               [id |-> id, title |-> title, location_name |-> location_name,
                owner_id |-> OwnerId(owner),
                \* bookkeeping: was the incident stored when the request arrived
                existed |-> id \in DOMAIN disasters],
               IF Truthy(location_name) THEN "geocode" ELSE "select",
               [location |-> None, coords |-> None, audit_trail |-> <<>>])
    /\ UNCHANGED <<now, ticks, cache, reports, resources, last, lastSet, served,
                   disasters, emitted, sockets, wire, inbox, ui>>

\* DELETE /disasters/:id
ReceiveDeleteDisasters(id) ==
    /\ Receive("DELETE /disasters/:id", [id |-> id], "delete", <<>>)
    /\ UNCHANGED <<now, ticks, cache, reports, resources, last, lastSet, served,
                   disasters, emitted, sockets, wire, inbox, ui>>

\* await geocodeLocation(location_name) resolves
GeocodeStep(i, geo, so) ==
    /\ reqs[i].pc = "geocode"
    /\ \E g \in {geocodeLocation(cache, now, reqs[i].args.location_name[1], geo, so)} :
          /\ cache' = g.rows
          /\ reqs' = [reqs EXCEPT ![i] =
                [@ EXCEPT !.pc = IF reqs[i].route = "POST /disasters" THEN "insert"
                                 ELSE "select",
                          !.loc = [location |-> Point(g.value),
                                   coords |-> g.value,
                                   audit_trail |->
                                      IF reqs[i].route = "POST /disasters"
                                      THEN <<AuditEntry("create",
                                                reqs[i].args.owner_id, now)>>
                                      ELSE <<>>]]]
    /\ UNCHANGED <<now, ticks, reports, resources, last, lastSet, served,
                   disasters, emitted, sockets, wire, inbox, ui>>

\* await supabase.from('disasters').insert(...) resolves
InsertStep(i, outcome) ==
    /\ reqs[i].pc = "insert"
    /\ Cardinality(Inserted) < Len(IdSeq)
    /\ \E res \in {InsertDisaster(disasters, IdSeq[Cardinality(Inserted) + 1],
                        [title |-> reqs[i].args.title,
                         location_name |-> reqs[i].args.location_name,
                         location |-> reqs[i].loc.location,
                         owner_id |-> reqs[i].args.owner_id,
                         audit_trail |-> reqs[i].loc.audit_trail], outcome)} :
          /\ disasters' = res.tbl
          /\ Conclude(i, <<Wrote(~res.error, IdSeq[Cardinality(Inserted) + 1])>>
                            \o PostDisastersInserted(res))
    /\ UNCHANGED <<now, ticks, cache, reports, resources, last, lastSet, served,
                   sockets, inbox, ui>>

\* await supabase.from('disasters').select('audit_trail') resolves, and the
\* new trail is built
SelectStep(i, outcome) ==
    /\ reqs[i].pc = "select"
    /\ reqs' = [reqs EXCEPT ![i] =
          [@ EXCEPT !.pc = "update",
                    !.loc = [@ EXCEPT !.audit_trail =
                                NewAuditTrail(SelectTrail(disasters, reqs[i].args.id,
                                                          outcome),
                                              reqs[i].args.owner_id, now)]]]
    /\ UNCHANGED <<now, ticks, cache, reports, resources, last, lastSet, served,
                   disasters, emitted, sockets, wire, inbox, ui>>

\* await supabase.from('disasters').update(...) resolves
UpdateStep(i, outcome) ==
    /\ reqs[i].pc = "update"
    /\ \E res \in {UpdateDisaster(disasters, reqs[i].args.id,
                        [title |-> reqs[i].args.title,
                         location_name |-> reqs[i].args.location_name,
                         location |-> reqs[i].loc.location,
                         audit_trail |-> reqs[i].loc.audit_trail], outcome)} :
          /\ disasters' = res.tbl
          /\ Conclude(i, <<Wrote(~res.error, reqs[i].args.id)>>
                            \o PutDisastersUpdated(res))
    /\ UNCHANGED <<now, ticks, cache, reports, resources, last, lastSet, served,
                   sockets, inbox, ui>>

\* await supabase.from('disasters').delete() resolves
DeleteStep(i, outcome) ==
    /\ reqs[i].pc = "delete"
    /\ \E res \in {DeleteDisaster(disasters, reqs[i].args.id, outcome)} :
          /\ disasters' = res.tbl
          /\ Conclude(i, <<Wrote(~res.error, reqs[i].args.id)>>
                            \o DeleteDisastersDeleted(reqs[i].args.id, res))
    /\ UNCHANGED <<now, ticks, cache, reports, resources, last, lastSet, served,
                   sockets, inbox, ui>>

\* GET /disasters/:id/social-media: received and answered in one turn
ServeGetSocialMedia(id) ==
    /\ Len(reqs) < MaxReqs
    /\ \E fx \in {GetSocialMedia(id, now)} :
       \E b \in {Broadcast(emitted, wire, sockets, Emits(fx), Len(reqs) + 1)} :
          /\ reqs' = Append(reqs, [route |-> "GET /disasters/:id/social-media",
                                   args |-> [id |-> id], pc |-> "done",
                                   loc |-> <<>>, fx |-> fx])
          /\ emitted' = b.log
          /\ wire' = b.w
    /\ UNCHANGED <<now, ticks, cache, reports, resources, last, lastSet, served,
                   disasters, sockets>>

\* the request made by a caller outside the modelled clients
GetSocialMediaRequest(id) ==
    /\ ServeGetSocialMedia(id)
    /\ UNCHANGED <<inbox, ui>>

-----------------------------------------------------------------------------
(* The frontend: selecting an incident and listening to the socket *)

\* selectDisaster(disaster), up to its third fetch: the incident clicked in the
\* list becomes the selected one and its social-media posts are requested
SelectDisaster(c, id) ==
    /\ id \in DOMAIN disasters
    /\ ui[c].fetch = None
    /\ ServeGetSocialMedia(id)
    /\ ui' = [ui EXCEPT ![c] = [@ EXCEPT !.selectedDisaster = Some(id),
                                         !.fetch = Some(Len(reqs) + 1)]]
    /\ UNCHANGED inbox

\* the body of the response the server sent to request i
Body(i) == reqs[i].fx[CHOOSE k \in 1..Len(reqs[i].fx) :
                         reqs[i].fx[k].kind = "response"].body

\* const socialData = await socialResponse.json(); setSocialMedia(socialData)
SocialMediaFetched(c) ==
    /\ ui[c].fetch # None
    /\ ui' = [ui EXCEPT ![c] = [@ EXCEPT !.socialMedia = Body(ui[c].fetch[1]),
                                         !.fetch = None]]
    /\ UNCHANGED <<now, ticks, cache, reports, resources, last, lastSet, served,
                   disasters, reqs, emitted, sockets, wire, inbox>>

\* two incidents are stored and listed by every client
InitBoard ==
    /\ now = 0
    /\ ticks = 0
    /\ cache = <<>>
    /\ reports = <<>>
    /\ resources = {}
    /\ last = NoCall
    /\ lastSet = [k \in CacheKeys |-> None]
    /\ served = [geo |-> [n \in Names |-> None],
                 ext |-> [x \in Texts |-> None],
                 req |-> [x \in Texts |-> None]]
    /\ disasters = [id \in DisasterIds |->
                       [id |-> id, title |-> "Flood", location_name |-> None,
                        location |-> None, owner_id |-> "netrunnerX",
                        audit_trail |-> <<AuditEntry("create", "netrunnerX", 0)>>]]
    /\ reqs = <<>>
    /\ emitted = <<>>
    /\ sockets = [c \in Clients |-> [state |-> "new", since |-> 0, until |-> 0]]
    /\ wire = [c \in Clients |-> <<>>]
    /\ inbox = [c \in Clients |-> <<>>]
    /\ ui = [c \in Clients |-> AppState]

\* clients open their socket, select incidents and receive; the clock is
\* advanced between one request and the next, where the posts get their stamp
NextBoard ==
    \/ \E d \in TickSteps : Len(reqs) = ticks + 1 /\ Tick(d)
    \/ \E c \in Clients : Connect(c)
    \/ \E c \in Clients, id \in DisasterIds : SelectDisaster(c, id)
    \/ \E c \in Clients : SocialMediaFetched(c)
    \/ \E c \in Clients : Deliver(c)

SpecBoard == InitBoard /\ [][NextBoard]_vars

\* the incident routes, requests overlapping at their awaited calls
NextCrud ==
    \/ \E t \in Titles, n \in LocationNames : ReceivePostDisasters(t, n, None)
    \/ \E id \in TargetIds, t \in Titles, o \in Owners :
          ReceivePutDisasters(id, t, None, o)
    \/ \E id \in TargetIds : ReceiveDeleteDisasters(id)
    \/ \E i \in 1..Len(reqs), geo \in FaultGeoResponses, so \in CacheOk :
          GeocodeStep(i, geo, so)
    \/ \E i \in 1..Len(reqs), o \in StoreOutcomes : InsertStep(i, o)
    \/ \E i \in 1..Len(reqs), o \in StoreOk : SelectStep(i, o)
    \/ \E i \in 1..Len(reqs), o \in StoreOutcomes : UpdateStep(i, o)
    \/ \E i \in 1..Len(reqs), o \in StoreOutcomes : DeleteStep(i, o)

SpecCrud == Init /\ [][NextCrud]_vars

\* creations and updates of one incident, with and without location_name,
\* the geocoder resolving the name or not, the database operational
NextCoords ==
    \/ \E t \in Titles, n \in LocationNames : ReceivePostDisasters(t, n, None)
    \/ \E id \in TargetIds, t \in Titles, n \in {None, Some("LA")} :
          ReceivePutDisasters(id, t, n, None)
    \/ \E i \in 1..Len(reqs), geo \in FaultGeoResponses, so \in CacheOk :
          GeocodeStep(i, geo, so)
    \/ \E i \in 1..Len(reqs), o \in StoreOk : InsertStep(i, o)
    \/ \E i \in 1..Len(reqs), o \in StoreOk : SelectStep(i, o)
    \/ \E i \in 1..Len(reqs), o \in StoreOk : UpdateStep(i, o)

SpecCoords == Init /\ [][NextCoords]_vars

-----------------------------------------------------------------------------
(* Calls of the cached components, overlapping at their awaited calls *)

Components == {"geocodeLocation", "extractLocationWithGemini",
               "verifyImageWithGemini", "fetchOfficialUpdates"}

\* variant: the place name is lower-cased in the key
KeyOfFolded(comp, arg) ==
    CASE comp = "geocodeLocation" ->
            "geocode_" \o (IF arg = "NY" THEN "ny" ELSE arg)
      [] comp = "extractLocationWithGemini" -> "extract_location_" \o arg
      [] comp = "verifyImageWithGemini" -> "verify_image_" \o arg
      [] OTHER -> "official_updates"

\* const cacheKey = ...
KeyOf(comp, arg) ==
    CASE comp = "geocodeLocation" -> "geocode_" \o arg
      [] comp = "extractLocationWithGemini" -> "extract_location_" \o arg
      [] comp = "verifyImageWithGemini" -> "verify_image_" \o arg
      [] OTHER -> "official_updates"

\* the argument each component is called with
ArgsOf(comp) ==
    CASE comp = "geocodeLocation" -> FaultNames
      [] comp = "extractLocationWithGemini" -> Texts
      [] comp = "verifyImageWithGemini" -> FaultUrls
      [] OTHER -> {""}

Return(v) == [kind |-> "return", value |-> v]

\* cache writes made so far by component calls
Sets == {i \in 1..Len(reqs) : At(i, "set") # {}}

CallComponent(comp, arg) ==
    /\ Receive(comp, [key |-> KeyOf(comp, arg), arg |-> arg], "get",
               [missed |-> FALSE, value |-> None])
    /\ UNCHANGED <<now, ticks, cache, reports, resources, last, lastSet, served,
                   disasters, emitted, sockets, wire, inbox, ui>>

\* let cached = await getCache(cacheKey); if (cached) return cached;
\* fetchOfficialUpdates builds its bulletins without a further awaited call;
\* the time of the read is kept with the call's effects
CacheGetStep(i, outcome) ==
    /\ reqs[i].route \in Components
    /\ reqs[i].pc = "get"
    /\ \E cached \in {getCache(cache, reqs[i].args.key, now, outcome)} :
          reqs' = [reqs EXCEPT ![i] =
              IF IsSome(cached)
              THEN [@ EXCEPT !.pc = "done",
                             !.fx = <<[kind |-> "get", at |-> now], Return(cached)>>]
              ELSE IF reqs[i].route = "fetchOfficialUpdates"
              THEN [@ EXCEPT !.pc = "set",
                             !.fx = <<[kind |-> "get", at |-> now]>>,
                             !.loc = [missed |-> TRUE,
                                      value |-> Some(OfficialUpdates(now))]]
              ELSE [@ EXCEPT !.pc = "provider",
                             !.fx = <<[kind |-> "get", at |-> now]>>,
                             !.loc = [missed |-> TRUE, value |-> None]]]
    /\ UNCHANGED <<now, ticks, cache, reports, resources, last, lastSet, served,
                   disasters, emitted, sockets, wire, inbox, ui>>

\* the provider's answer arrives: a value to store and return, or the
\* component's answer without a value
Provided(i, v, fallback) ==
    /\ reqs' = [reqs EXCEPT ![i] =
          IF IsSome(v)
          THEN [@ EXCEPT !.pc = "set", !.loc = [missed |-> TRUE, value |-> v]]
          ELSE [@ EXCEPT !.pc = "done", !.fx = @ \o <<Return(fallback)>>]]
    /\ UNCHANGED <<now, ticks, cache, reports, resources, last, lastSet, served,
                   disasters, emitted, sockets, wire, inbox, ui>>

\* await axios.get(nominatim) in geocodeLocation
NominatimStep(i, geo) ==
    /\ reqs[i].route = "geocodeLocation"
    /\ reqs[i].pc = "provider"
    /\ Provided(i, GeoAnswer(geo), None)

\* await axios.post(GEMINI_URL) in extractLocationWithGemini
GeminiStep(i, llm) ==
    /\ reqs[i].route = "extractLocationWithGemini"
    /\ reqs[i].pc = "provider"
    /\ Provided(i, LlmAnswer(llm), None)

\* await model.generateContent(prompt) in verifyImageWithGemini
VisionStep(i, resp, rnd) ==
    /\ reqs[i].route = "verifyImageWithGemini"
    /\ reqs[i].pc = "provider"
    /\ Provided(i, IF resp.kind = "ok" THEN Some(VisionAnswer(resp, rnd)) ELSE None,
                Some(Degraded))

\* await setCache(cacheKey, value); return value
CacheSetStep(i, outcome) ==
    /\ reqs[i].route \in Components
    /\ reqs[i].pc = "set"
    /\ cache' = setCache(cache, reqs[i].args.key, reqs[i].loc.value[1], None, now,
                         outcome)
    /\ reqs' = [reqs EXCEPT ![i] =
          [@ EXCEPT !.pc = "done",
                    !.fx = @ \o <<[kind |-> "set", nth |-> Cardinality(Sets) + 1,
                                     at |-> now],
                                    Return(reqs[i].loc.value)>>]]
    /\ UNCHANGED <<now, ticks, reports, resources, last, lastSet, served,
                   disasters, emitted, sockets, wire, inbox, ui>>

NextRace ==
    \/ \E comp \in Components : \E arg \in ArgsOf(comp) : CallComponent(comp, arg)
    \/ \E i \in 1..Len(reqs), o \in StoreOk : CacheGetStep(i, o)
    \/ \E i \in 1..Len(reqs), geo \in FaultGeoResponses : NominatimStep(i, geo)
    \/ \E i \in 1..Len(reqs), llm \in FaultLlmResponses : GeminiStep(i, llm)
    \/ \E i \in 1..Len(reqs), resp \in VisionResponses, rnd \in Randoms :
          VisionStep(i, resp, rnd)
    \/ \E i \in 1..Len(reqs), o \in StoreOk : CacheSetStep(i, o)

SpecRace == Init /\ [][NextRace]_vars

\* verifyImageWithGemini(imageUrl) is called; the calls that had returned by
\* then are kept with it
VerifyImageCall(imageUrl) ==
    /\ Receive("verifyImageWithGemini",
               [key |-> KeyOf("verifyImageWithGemini", imageUrl), arg |-> imageUrl,
                began |-> {k \in 1..Len(reqs) : Done(k)}],
               "get", [missed |-> FALSE, value |-> None])
    /\ UNCHANGED <<now, ticks, cache, reports, resources, last, lastSet, served,
                   disasters, emitted, sockets, wire, inbox, ui>>

\* calls of verifyImageWithGemini for one image, overlapping, over time,
\* with an operational cache store; a call takes far less than the half
\* hour the clock advances by, so the clock advances between calls
NextStable ==
    \/ \E d \in TickSteps : (\A i \in 1..Len(reqs) : Done(i)) /\ Tick(d)
    \/ \E u \in FaultUrls : VerifyImageCall(u)
    \/ \E i \in 1..Len(reqs), o \in StoreOk : CacheGetStep(i, o)
    \/ \E i \in 1..Len(reqs), resp \in VisionResponses, rnd \in Randoms :
          VisionStep(i, resp, rnd)
    \/ \E i \in 1..Len(reqs), o \in StoreOk : CacheSetStep(i, o)

SpecStable == Init /\ [][NextStable]_vars

\* raw inputs that differ in case only, that are shared between components,
\* or that spell another component's key
KeyInputs(comp) ==
    CASE comp = "geocodeLocation" -> {"NY", "ny", "updates"}
      [] comp = "extractLocationWithGemini" -> {"NY", "ny"}
      [] comp = "verifyImageWithGemini" -> {"NY"}
      [] OTHER -> {""}

\* the cached components called with these inputs, one call after another,
\* with an operational cache store
NextKeys ==
    \/ \E comp \in Components : \E arg \in KeyInputs(comp) :
          (\A i \in 1..Len(reqs) : Done(i)) /\ CallComponent(comp, arg)
    \/ \E i \in 1..Len(reqs), o \in StoreOk : CacheGetStep(i, o)
    \/ \E i \in 1..Len(reqs), geo \in FaultGeoResponses : NominatimStep(i, geo)
    \/ \E i \in 1..Len(reqs), llm \in FaultLlmResponses : GeminiStep(i, llm)
    \/ \E i \in 1..Len(reqs), resp \in VisionResponses, rnd \in FaultRandoms :
          VisionStep(i, resp, rnd)
    \/ \E i \in 1..Len(reqs), o \in StoreOk : CacheSetStep(i, o)

SpecKeys == Init /\ [][NextKeys]_vars

\* the delete and social-media routes, with sockets connecting,
\* disconnecting and receiving while the requests are served
NextFanout ==
    \/ \E c \in Clients : Connect(c)
    \/ \E c \in Clients : Disconnect(c)
    \/ \E c \in Clients : Deliver(c)
    \/ \E id \in TargetIds : ReceiveDeleteDisasters(id)
    \/ \E i \in 1..Len(reqs), o \in StoreOutcomes : DeleteStep(i, o)
    \/ \E id \in DisasterIds \ TargetIds : GetSocialMediaRequest(id)

SpecFanout == Init /\ [][NextFanout]_vars

-----------------------------------------------------------------------------
(* Image verification with every score, and bulletins for every incident *)

\* Math.random() at the edges of the three thirds
ScoreRandoms == {0, 333, 334, 666, 667, 999}

NextScore ==
    \/ \E d \in TickSteps : Tick(d)
    \/ \E id \in FaultIds, u \in FaultUrls, resp \in VisionResponses,
          rnd \in ScoreRandoms, so \in CacheOk, upd \in StoreOk :
          PostVerifyImageRequest(id, u, resp, rnd, so, upd)

SpecScore == Init /\ [][NextScore]_vars

\* the clock advances by twenty minutes or by half an hour
BulletinTickSteps == {20 * 60 * 1000} \cup TickSteps

NextBulletin ==
    \/ \E d \in BulletinTickSteps : Tick(d)
    \/ \E id \in DisasterIds, so \in CacheOk : GetOfficialUpdatesRequest(id, so)

SpecBulletin == Init /\ [][NextBulletin]_vars

-----------------------------------------------------------------------------
(* The routes that reach a provider, with providers that may fail and an
   operational cache store and database *)

NextProviders ==
    \/ \E n \in FaultNames, geo \in FaultGeoResponses, so \in CacheOk :
          GeocodeLocationCall(n, geo, so)
    \/ \E x \in Texts, llm \in FaultLlmResponses, geo \in FaultGeoResponses,
          soE \in CacheOk, soG \in CacheOk :
          PostGeocodeRequest(x, llm, geo, soE, soG)
    \/ \E id \in FaultIds, u \in FaultUrls, resp \in VisionResponses,
          rnd \in FaultRandoms, so \in CacheOk, upd \in StoreOk :
          PostVerifyImageRequest(id, u, resp, rnd, so, upd)
    \/ \E id \in FaultIds, so \in CacheOk : GetOfficialUpdatesRequest(id, so)

SpecProviders == Init /\ [][NextProviders]_vars

-----------------------------------------------------------------------------
(* The callers of the geocoder *)

\* two request bodies of POST /geocode that name the same place
SharedTexts == Texts \cup {"NY under water"}

\* server start, with the bookkeeping laid out for both texts
InitShared ==
    /\ now = 0
    /\ ticks = 0
    /\ cache = <<>>
    /\ reports = <<>>
    /\ resources = {}
    /\ last = NoCall
    /\ lastSet = [k \in CacheKeys |-> None]
    /\ served = [geo |-> [n \in Names |-> None],
                 ext |-> [x \in SharedTexts |-> None],
                 req |-> [x \in SharedTexts |-> None]]
    /\ RtInit

\* the callers of geocodeLocation over time: the incident routes, which pass
\* location_name, and POST /geocode for either text
NextShared ==
    \/ \E d \in TickSteps : Tick(d)
    \/ \E n \in FaultNames, geo \in GeoResponses, so \in CacheOk :
          GeocodeLocationCall(n, geo, so)
    \/ \E x \in SharedTexts, llm \in FaultLlmResponses, geo \in GeoResponses,
          soE \in CacheOk, soG \in CacheOk :
          PostGeocodeRequest(x, llm, geo, soE, soG)

SpecShared == InitShared /\ [][NextShared]_vars

-----------------------------------------------------------------------------
(* Reports and verifications of one image over time *)

NextReset ==
    \/ \E d \in TickSteps : Tick(d)
    \/ \E id \in FaultIds, u \in FaultUrls, resp \in VisionResponses,
          rnd \in FaultRandoms, so \in CacheOk, upd \in StoreOk :
          PostVerifyImageRequest(id, u, resp, rnd, so, upd)
    \/ \E d \in DisasterIds, c \in ReportContents, u \in ReportUrls, ins \in StoreOk :
          PostReportsRequest(d, c, u, ins)

SpecReset == Init /\ [][NextReset]_vars

-----------------------------------------------------------------------------
(* Claims about the cache store *)

\* the expiry instant a setCache call asks for: its call time plus its ttl,
\* 60 minutes when no ttl was given
Deadline(w) == w.at + (IF IsSome(w.ttl) THEN w.ttl[1] ELSE 60) * 60 * 1000

\* C1: getCache never returns a stale value: a getCache for a key that was
\* never written, or performed later than the last setCache of the key plus
\* its TTL, returns a miss.
C1_NoStaleRead ==
    last.op = "getCache" =>
        ((last.seen = None \/ last.at > Deadline(last.seen[1]))
            => last.value = None)

\* a getCache after the entry's expiry has returned a miss
C1_Witness ==
    /\ last.op = "getCache"
    /\ IsSome(last.seen)
    /\ last.at > Deadline(last.seen[1])
    /\ last.value = None
    /\ RowsOf(cache, last.key) # {}

\* C2: setCache is last-writer-wins and restarts the expiry window: the store
\* holds at most one row per key; the row carries the value of the most
\* recent setCache of the key and expires at that call's time plus its ttl
\* (60 minutes by default); a getCache before that instant returns the value.
C2_LastWriterWins ==
    /\ \A k \in CacheKeys :
          /\ Cardinality(RowsOf(cache, k)) <= 1
          /\ IsSome(lastSet[k]) =>
                RowsOf(cache, k) =
                    {[key |-> k, value |-> lastSet[k][1].value,
                      expires_at |-> Deadline(lastSet[k][1])]}
          /\ lastSet[k] = None => RowsOf(cache, k) = {}
    /\ (last.op = "getCache" /\ IsSome(last.seen)
            /\ last.at < Deadline(last.seen[1]))
          => last.value = Some(last.seen[1].value)

\* a key was written twice with different values and ttls, and a later
\* getCache inside the second window returned the second value
C2_Witness ==
    /\ last.op = "getCache"
    /\ IsSome(last.seen)
    /\ last.seen[1].value = "v2"
    /\ last.seen[1].ttl = None
    /\ last.seen[1].at > 60000
    /\ last.at > last.seen[1].at
    /\ last.value = Some("v2")

-----------------------------------------------------------------------------
(* Claims about cache-store failures *)

-----------------------------------------------------------------------------
(* Claims about the geocoding pipeline *)

\* C4: a repeated lookup within the TTL window is served from cache: a
\* geocodeLocation(p) call inside the window opened by an earlier successful
\* one returns the same coordinates without calling the geocoding provider,
\* and a POST /geocode(text) inside the window of an earlier successful one
\* answers 200 with the same {locationName, coordinates} and calls neither
\* the language model nor the geocoding provider.
C4_RepeatServedFromCache ==
    /\ (last.op = "geocodeLocation" /\ IsSome(last.expect)) =>
          (last.value = last.expect /\ last.calls = <<>>)
    /\ (last.op = "POST /geocode" /\ IsSome(last.expect)) =>
          (last.status = 200 /\ last.body = last.expect[1] /\ last.calls = <<>>)

\* a second POST /geocode, half an hour or more after the first, was answered
\* from the two cache entries
C4_Witness ==
    /\ last.op = "POST /geocode"
    /\ IsSome(last.expect)
    /\ now > 0
    /\ last.status = 200
    /\ last.calls = <<>>
    /\ last.writes = <<>>

\* C5: a geocodeLocation call that ends in "not found" writes no cache entry
\* (alone, it leaves the whole cache as it was; inside POST /geocode it
\* leaves the geocode_ entry of the name as it was), and the next call for
\* the same name queries the provider again.
C5_NotFoundWritesNothing ==
    /\ [][/\ (last'.op = "geocodeLocation" /\ last'.value = None) => cache' = cache
          /\ (last'.op = "POST /geocode" /\ Len(last'.stages) = 2
                /\ last'.stages[2].value = None) =>
                RowsOf(cache', "geocode_" \o last'.stages[1].value[1])
                    = RowsOf(cache, "geocode_" \o last'.stages[1].value[1])]_vars
    /\ []((last.op = "geocodeLocation" /\ last.afterMiss)
            => last.calls = <<"nominatim">>)

\* a geocodeLocation call for a name succeeded from the provider right after
\* a call for the same name had ended in "not found"
C5_Witness ==
    /\ last.op = "geocodeLocation"
    /\ last.afterMiss
    /\ IsSome(last.value)
    /\ last.calls = <<"nominatim">>
    /\ last.writes = <<"geocode_" \o last.arg>>

\* C6: POST /geocode short-circuits: when the extractor yields no place name
\* the request ends 400 "Could not extract location", the geocoder is not
\* invoked (the only cache read is the extractor's, the geocoding provider
\* is not called) and the cache is left as it was.
C6_ShortCircuit ==
    [][(last'.op = "POST /geocode" /\ ~Truthy(last'.stages[1].value)) =>
          /\ last'.status = 400
          /\ last'.body = [error |-> "Could not extract location"]
          /\ Len(last'.stages) = 1
          /\ last'.reads = <<"extract_location_" \o last'.arg>>
          /\ last'.writes = <<>>
          /\ ~Called(last'.calls, "nominatim")
          /\ cache' = cache]_vars

\* a POST /geocode whose language-model call failed ended 400 while the
\* geocode entry of an earlier request was in the cache
C6_Witness ==
    /\ last.op = "POST /geocode"
    /\ last.llm = "error"
    /\ last.calls = <<"gemini">>
    /\ last.status = 400
    /\ RowsOf(cache, "geocode_NY") # {}

\* C7: POST /geocode answers 200 with {locationName, coordinates} exactly
\* when both the extraction and the geocoding stage yield a result and 400
\* with {error} otherwise; a failed language-model call and an empty or
\* absent model response give the same 400 answer, never a 5xx.
C7_GeocodeStatus ==
    last.op = "POST /geocode" =>
        LET named == Truthy(StageValue(last.stages, 1))
            located == IsSome(StageValue(last.stages, 2))
        IN  /\ last.status \in {200, 400}
            /\ last.status = 200 <=> (named /\ located)
            /\ last.status = 200 =>
                  last.body = [locationName |-> last.stages[1].value[1],
                               coordinates |-> last.stages[2].value[1]]
            /\ (last.status = 400 /\ ~named) =>
                  last.body = [error |-> "Could not extract location"]
            /\ (last.status = 400 /\ named) =>
                  last.body = [error |-> "Could not geocode location"]
            /\ (Called(last.calls, "gemini") /\ ~named) =>
                  /\ last.status = 400
                  /\ last.body = [error |-> "Could not extract location"]

\* the extraction succeeded and the geocoding provider found no match: 400
C7_Witness ==
    /\ last.op = "POST /geocode"
    /\ last.status = 400
    /\ Len(last.stages) = 2
    /\ last.calls = <<"gemini", "nominatim">>
    /\ last.body = [error |-> "Could not geocode location"]

-----------------------------------------------------------------------------
(* Claims about image verification and reports *)

C10_StatusOnlyByVerifier ==
    /\ [][\A i \in 1..Len(reports) :
            /\ i <= Len(reports')
            /\ reports'[i] # reports[i] =>
                  /\ last'.op = VerifyOp
                  /\ reports[i].image_url = Some(last'.arg)
                  /\ reports'[i] = [reports[i] EXCEPT
                                      !.verification_status = last'.body.status]]_vars
    /\ [][Len(reports') > Len(reports) =>
            /\ Len(reports') = Len(reports) + 1
            /\ last'.op = "POST /reports"
            /\ reports'[Len(reports')].verification_status = "pending"]_vars
    /\ [](last.op = VerifyOp =>
            \A i \in 1..Len(reports) :
                reports[i].image_url = Some(last.arg) =>
                    reports[i].verification_status = last.body.status)

\* a verify-image request under incident d1 set two reports with that image
\* to verified, one of them in incident d2
C10_Witness ==
    /\ last.op = VerifyOp
    /\ last.id = "d1"
    /\ last.body.status = "verified"
    /\ \E i, j \in 1..Len(reports) :
          /\ i # j
          /\ reports[i].image_url = Some(last.arg)
          /\ reports[j].image_url = Some(last.arg)
          /\ reports[i].disaster_id = "d2"
          /\ reports[i].verification_status = "verified"
          /\ reports[j].verification_status = "verified"

-----------------------------------------------------------------------------
(* Claims about the resource locator *)

\* what the same request without coordinates is answered
WithoutCoordinates ==
    GetResources(resources, last.id, None, None, last.radius, last.rpc, last.qry)

-----------------------------------------------------------------------------
(* Claims about incident mutations and their broadcasts *)

MutatingRoutes == {"POST /disasters", "PUT /disasters/:id", "DELETE /disasters/:id"}

ActionOf(route) ==
    CASE route = "POST /disasters" -> "create"
      [] route = "PUT /disasters/:id" -> "update"
      [] route = "DELETE /disasters/:id" -> "delete"
      [] OTHER -> "none"

Confirmed(i) == {k \in At(i, "write") : reqs[i].fx[k].ok}
EmittedBy(i) == {k \in 1..Len(emitted) : emitted[k].by = i}

\* C11: a mutating request whose write was confirmed emits exactly one
\* disaster_updated event, with the action of its route, after the write; a
\* request whose write failed, or has not resolved yet, emits none.
C11_BroadcastFollowsWrite ==
    \A i \in 1..Len(reqs) :
        reqs[i].route \in MutatingRoutes =>
            /\ Cardinality(EmittedBy(i)) = Cardinality(At(i, "emit"))
            /\ IF Confirmed(i) # {}
               THEN /\ Cardinality(At(i, "emit")) = 1
                    /\ \A e \in At(i, "emit") :
                          /\ reqs[i].fx[e].name = "disaster_updated"
                          /\ reqs[i].fx[e].payload.action = ActionOf(reqs[i].route)
                          /\ \A w \in Confirmed(i) : w < e
                    /\ \A k \in EmittedBy(i) :
                          /\ emitted[k].name = "disaster_updated"
                          /\ emitted[k].payload.action = ActionOf(reqs[i].route)
               ELSE At(i, "emit") = {}

\* an update was confirmed and broadcast as 'update', and another request's
\* write failed without any event
C11_Witness ==
    \E i, j \in 1..Len(reqs) :
        /\ reqs[i].route = "PUT /disasters/:id"
        /\ Confirmed(i) # {}
        /\ \E k \in EmittedBy(i) : emitted[k].payload.action = "update"
        /\ Done(j)
        /\ reqs[j].route \in MutatingRoutes
        /\ Confirmed(j) = {}
        /\ EmittedBy(j) = {}

IsPrefix(a, b) == Len(a) <= Len(b) /\ SubSeq(b, 1, Len(a)) = a

\* confirmed updates of the incident id
Updates(id) ==
    {i \in 1..Len(reqs) :
        reqs[i].route = "PUT /disasters/:id" /\ reqs[i].args.id = id
            /\ Confirmed(i) # {}}

\* every update request for the incident arrived after its creation
UpdatesFollowCreate(id) ==
    \A i \in 1..Len(reqs) :
        (reqs[i].route = "PUT /disasters/:id" /\ reqs[i].args.id = id) =>
            reqs[i].args.existed

\* C12 as stated: after one create followed by n confirmed updates of an
\* incident, overlapping or not, its stored audit_trail has 1 + n entries,
\* and every stored trail is a prefix of every later one.
C12_AuditTrailAppendOnly ==
    /\ [](\A id \in DOMAIN disasters :
            UpdatesFollowCreate(id) =>
                Len(disasters[id].audit_trail) = 1 + Cardinality(Updates(id)))
    /\ [][\A id \in (DOMAIN disasters) \cap (DOMAIN disasters') :
            UpdatesFollowCreate(id) =>
                IsPrefix(disasters[id].audit_trail, disasters'[id].audit_trail)]_vars

-----------------------------------------------------------------------------
(* Claims about overlapping calls of one component *)

Returned(i) == reqs[i].fx[CHOOSE k \in At(i, "return") : TRUE].value
Nth(i) == reqs[i].fx[CHOOSE k \in At(i, "set") : TRUE].nth

\* two finished calls of one component with one key that both missed the
\* cache and both computed and stored a value
BothRecomputed(i, j) ==
    /\ i < j
    /\ reqs[i].route \in Components
    /\ reqs[i].route = reqs[j].route
    /\ reqs[i].args.key = reqs[j].args.key
    /\ reqs[i].loc.missed /\ reqs[j].loc.missed
    /\ i \in Sets /\ j \in Sets

\* C13 as stated: two overlapping calls with one key that both miss receive
\* the same value, and afterwards the cache holds exactly one entry for
\* the key, with that value.
C13_DuplicateWorkOnly ==
    \A i, j \in 1..Len(reqs) :
        BothRecomputed(i, j) =>
            /\ Returned(i) = Returned(j)
            /\ \E r \in RowsOf(cache, reqs[i].args.key) :
                  /\ RowsOf(cache, reqs[i].args.key) = {r}
                  /\ Some(r.value) = Returned(i)

\* C13, amended: the two callers each receive the value they computed and
\* stored, which may differ between them; the cache holds at most one entry
\* per key, and once calls have stored a value for a key its entry carries
\* the value received by the call whose write came last.
C13_LastWriterIsServed ==
    /\ \A k \in DOMAIN cache : Cardinality(cache[k]) <= 1
    /\ \A i \in Sets :
          /\ Returned(i) = reqs[i].loc.value
          /\ (\A j \in Sets : reqs[j].args.key = reqs[i].args.key => Nth(j) <= Nth(i))
                => \E r \in RowsOf(cache, reqs[i].args.key) :
                      /\ RowsOf(cache, reqs[i].args.key) = {r}
                      /\ Some(r.value) = Returned(i)

\* two overlapping verifications of one image both missed; the first to
\* store received score 9, the second score 7, and the cache holds score 7
C13_Witness ==
    \E i, j \in 1..Len(reqs) :
        /\ BothRecomputed(i, j)
        /\ reqs[i].route = "verifyImageWithGemini"
        /\ Returned(i)[1].score = 9
        /\ Returned(j)[1].score = 7
        /\ Nth(i) < Nth(j)
        /\ \E r \in RowsOf(cache, reqs[i].args.key) : r.value.score = 7

-----------------------------------------------------------------------------
(* Claims about the fan-out to connected observers *)

\* socket c was connected when the k-th event was emitted
ConnectedAt(c, k) ==
    /\ sockets[c].state # "new"
    /\ sockets[c].since < k
    /\ sockets[c].state = "closed" => k <= sockets[c].until

\* the events sent to socket c, handled by its client or still on their way
SentTo(c) == inbox[c] \o wire[c]

\* C14: an event is sent to every observer connected when it is emitted,
\* whatever incident it concerns, in the order of emission, and to no
\* observer that connected later; nothing is replayed on connection.
C14_EveryConnectedObserver ==
    \A c \in Clients :
        /\ \A n \in 1..Len(SentTo(c)) :
              /\ SentTo(c)[n] \in 1..Len(emitted)
              /\ ConnectedAt(c, SentTo(c)[n])
              /\ n > 1 => SentTo(c)[n - 1] < SentTo(c)[n]
        /\ sockets[c].state = "open" =>
              \A k \in 1..Len(emitted) :
                  ConnectedAt(c, k) => \E n \in 1..Len(SentTo(c)) : SentTo(c)[n] = k

\* one observer has handled the deletion of incident d1 and then the social
\* signals of incident d2; another connected between the two and was sent
\* only the second
C14_Witness ==
    \E c, d \in Clients :
        /\ inbox[c] = <<1, 2>>
        /\ emitted[1].name = "disaster_updated"
        /\ emitted[1].payload.id = "d1"
        /\ emitted[2].name = "social_media_updated"
        /\ emitted[2].payload.disaster_id = "d2"
        /\ sockets[d].state = "open"
        /\ sockets[d].since = 1
        /\ SentTo(d) = <<2>>

Responses(i) == At(i, "response")

C20_SocialMediaEmitsOnce ==
    \A i \in 1..Len(reqs) :
        reqs[i].route = "GET /disasters/:id/social-media" =>
            /\ Done(i)
            /\ Cardinality(At(i, "emit")) = 1
            /\ Cardinality(Responses(i)) = 1
            /\ \A e \in At(i, "emit") : \A r \in Responses(i) :
                  /\ e < r
                  /\ reqs[i].fx[r].status = 200
                  /\ reqs[i].fx[e].name = "social_media_updated"
                  /\ reqs[i].fx[e].payload.disaster_id = reqs[i].args.id
                  /\ reqs[i].fx[e].payload.data = reqs[i].fx[r].body
            /\ Cardinality(EmittedBy(i)) = 1
            /\ \A k \in EmittedBy(i) :
                  /\ emitted[k].name = "social_media_updated"
                  /\ emitted[k].payload.disaster_id = reqs[i].args.id

\* a social-media request for incident d2 was answered with the four posts
\* and its event reached a connected observer
C20_Witness ==
    \E i \in 1..Len(reqs) :
        /\ reqs[i].route = "GET /disasters/:id/social-media"
        /\ reqs[i].args.id = "d2"
        /\ \E r \in Responses(i) : Len(reqs[i].fx[r].body) = 4
        /\ \E k \in EmittedBy(i) : \E c \in Clients :
              \E n \in 1..Len(inbox[c]) : inbox[c][n] = k

-----------------------------------------------------------------------------
(* Claims about verification results and the bulletin snapshot *)

\* C18: a verification computed from a successful provider call has an
\* integer score from 7 to 10, the provider's text as reasoning and status
\* 'verified'; every result returned, computed or cached, has a score
\* from 1 to 10 and status 'verified' or 'pending'.
C18_ScoreRange ==
    last.op = VerifyOp =>
        /\ last.status = 200
        /\ last.body.score \in 1..10
        /\ last.body.status \in {"verified", "pending"}
        /\ (last.calls = <<"gemini-pro">> /\ last.vision = "ok") =>
              /\ last.body.score \in 7..10
              /\ last.body.reasoning = "real"
              /\ last.body.status = "verified"

\* a verification computed from the provider's answer got the highest score
\* the code assigns, 9
C18_Witness ==
    /\ last.op = VerifyOp
    /\ last.calls = <<"gemini-pro">>
    /\ last.vision = "ok"
    /\ last.body.score = 9
    /\ last.body.reasoning = "real"

OfficialOp == "GET /disasters/:id/official-updates"

\* the unexpired entry of the bulletin snapshot
LiveSnapshot == {r \in RowsOf(cache, "official_updates") : r.expires_at > now}

\* C19: while the snapshot stored under the one key 'official_updates' has
\* not expired, a request for any incident id is answered with that
\* snapshot and the source is not consulted; the bulletins are recomputed
\* only when no unexpired snapshot exists, and the recomputed snapshot then
\* stands for the next 60 minutes.
C19_OneGlobalSnapshot ==
    [][(now' = now /\ last'.op = OfficialOp) =>
          IF LiveSnapshot # {}
          THEN /\ last'.calls = <<>>
               /\ \A r \in LiveSnapshot : last'.body = r.value
               /\ cache' = cache
          ELSE /\ last'.calls = <<"source">>
               /\ last'.body = OfficialUpdates(now)
               /\ RowsOf(cache', "official_updates") =
                     {[key |-> "official_updates", value |-> last'.body,
                       expires_at |-> now + 60 * 60 * 1000]}]_vars

\* a request for incident d2, half an hour after the snapshot was computed,
\* was answered with that snapshot without consulting the source
C19_Witness ==
    /\ last.op = OfficialOp
    /\ last.id = "d2"
    /\ last.calls = <<>>
    /\ now = 30 * 60 * 1000
    /\ last.body[1].timestamp = 0

-----------------------------------------------------------------------------
(* Claims about provider failures *)

\* C16: with the cache store and the database operational, a failing
\* provider is absorbed: the geocoder yields not found, the extractor no
\* location, the verifier its fixed degraded result, the bulletin route its
\* bulletins; POST /geocode then ends 400, the other requests 200, and no
\* request ends with a 5xx.
C16_ProviderFailureAbsorbed ==
    /\ (last.op = "geocodeLocation" /\ last.provider = "error") =>
          last.value = None
    /\ last.op = "POST /geocode" =>
          /\ last.status \in {200, 400}
          /\ (Called(last.calls, "gemini") /\ last.llm = "error") =>
                /\ last.stages[1].value = None
                /\ last.status = 400
                /\ last.body = [error |-> "Could not extract location"]
          /\ last.geo = "error" =>
                /\ last.stages[2].value = None
                /\ last.status = 400
                /\ last.body = [error |-> "Could not geocode location"]
    /\ last.op = VerifyOp =>
          /\ last.status = 200
          /\ (last.calls = <<"gemini-pro">> /\ last.vision = "error") =>
                last.body = Degraded
    /\ last.op = OfficialOp =>
          /\ last.status = 200
          /\ Len(last.body) = 2

\* a POST /geocode whose language-model call failed was answered 400 after
\* the language model had been asked
C16_Witness ==
    /\ last.op = "POST /geocode"
    /\ last.llm = "error"
    /\ last.calls = <<"gemini">>
    /\ last.status = 400
    /\ last.body = [error |-> "Could not extract location"]

-----------------------------------------------------------------------------
(* Route handlers followed one awaited call at a time: POST /geocode,
   GET /disasters/:id/resources and POST /disasters/:id/verify-image *)

\* requests followed to their response
MaxLive == 2

\* how an awaited Supabase call ends: resolved with data, resolved with an
\* error object, or rejected
Awaited == {"ok", "error", "throw"}

\* the handler's local variables: locationName, and coords or verification
Locals(locationName, value) == [locationName |-> locationName, value |-> value]

\* the handler moves on to its next awaited call
Goto(pc, loc, rows) == [pc |-> pc, loc |-> loc, fx |-> <<>>, rows |-> rows]

\* the handler sends its response and ends; its locals are gone
Sends(status, body, rows) ==
    [pc |-> "done", loc |-> Locals(None, None), fx |-> <<Respond(status, body)>>,
     rows |-> rows]

\* variant: the 400 is sent without return, and the success response follows
CouldNotGeocodeFallsThrough(loc, rows) ==
    [pc |-> "done", loc |-> Locals(None, None),
     fx |-> <<Respond(400, [error |-> "Could not geocode location"]),
              Respond(200, [locationName |-> loc.locationName[1],
                            coordinates |-> None])>>,
     rows |-> rows]

\* if (!coords) return res.status(400).json(...)
CouldNotGeocode(loc, rows) ==
    Sends(400, [error |-> "Could not geocode location"], rows)

\* POST /geocode at the awaited call r.pc, which ends as o (a Supabase
\* call), llm (the language model) or geo (Nominatim)
PostGeocodeAwait(r, rows, t, o, llm, geo) ==
    LET eKey == "extract_location_" \o r.args.text
        gKey == "geocode_" \o r.loc.locationName[1]
        caught == Sends(500, [error |-> "Geocoding failed"], rows)
        noName == Sends(400, [error |-> "Could not extract location"], rows)
    IN  CASE r.pc = "extract.getCache" ->
               IF o = "throw" THEN caught
               ELSE IF Truthy(getCache(rows, eKey, t, o))
               THEN Goto("geocode.getCache",
                         Locals(getCache(rows, eKey, t, o), None), rows)
               ELSE Goto("extract.post", r.loc, rows)
          [] r.pc = "extract.post" ->
               IF IsSome(LlmAnswer(llm))
               THEN Goto("extract.setCache", Locals(LlmAnswer(llm), None), rows)
               ELSE noName
          [] r.pc = "extract.setCache" ->
               IF o = "throw" THEN noName
               ELSE Goto("geocode.getCache", r.loc,
                         setCache(rows, eKey, r.loc.locationName[1], None, t, o))
          [] r.pc = "geocode.getCache" ->
               IF o = "throw" THEN caught
               ELSE IF IsSome(getCache(rows, gKey, t, o))
               THEN Sends(200, [locationName |-> r.loc.locationName[1],
                                coordinates |-> getCache(rows, gKey, t, o)[1]], rows)
               ELSE Goto("geocode.get", r.loc, rows)
          [] r.pc = "geocode.get" ->
               IF IsSome(GeoAnswer(geo))
               THEN Goto("geocode.setCache",
                         Locals(r.loc.locationName, GeoAnswer(geo)), rows)
               ELSE CouldNotGeocode(r.loc, rows)
          [] OTHER ->
               IF o = "throw" THEN CouldNotGeocode(r.loc, rows)
               ELSE Sends(200, [locationName |-> r.loc.locationName[1],
                                coordinates |-> r.loc.value[1]],
                          setCache(rows, gKey, r.loc.value[1], None, t, o))

\* GET /disasters/:id/resources at the awaited call r.pc: the proximity
\* query ends rejected (o) or resolved (rpc); the plain query ends as o;
\* res.json(data) is the body [data |-> the rows]
GetResourcesAwait(r, res, o, rpc) ==
    LET caught == Sends(500, FetchFailed, {})
        plain == PlainFilter(res, r.args.id, o)
    IN  CASE r.pc = "rpc" ->
               IF o = "throw" THEN caught
               ELSE IF rpc.error THEN Goto("fallback", r.loc, {})
               ELSE Sends(200, [data |-> rpc.data], {})
          [] OTHER ->
               IF o = "throw" \/ plain.error THEN caught
               ELSE Sends(200, [data |-> plain.data], {})

\* POST /disasters/:id/verify-image at the awaited call r.pc; rows are the
\* cache rows, and the last call updates the reports
PostVerifyImageAwait(r, rows, t, o, resp, rnd) ==
    LET key == "verify_image_" \o r.args.image_url
        caught == Sends(500, [error |-> "Failed to verify image"], rows)
    IN  CASE r.pc = "verify.getCache" ->
               IF o = "throw" THEN caught
               ELSE IF IsSome(getCache(rows, key, t, o))
               THEN Goto("update", Locals(None, getCache(rows, key, t, o)), rows)
               ELSE Goto("verify.generateContent", r.loc, rows)
          [] r.pc = "verify.generateContent" ->
               IF resp.kind = "ok"
               THEN Goto("verify.setCache",
                         Locals(None, Some(VisionAnswer(resp, rnd))), rows)
               ELSE Goto("update", Locals(None, Some(Degraded)), rows)
          [] r.pc = "verify.setCache" ->
               IF o = "throw"
               THEN Goto("update", Locals(None, Some(Degraded)), rows)
               ELSE Goto("update", r.loc,
                         setCache(rows, key, r.loc.value[1], None, t, o))
          [] OTHER ->
               IF o = "throw" THEN caught
               ELSE Sends(200, r.loc.value[1], rows)

Advance(i, n) ==
    reqs' = [reqs EXCEPT ![i] =
                [@ EXCEPT !.pc = n.pc, !.loc = n.loc, !.fx = @ \o n.fx]]

ReceivePostGeocode(text) ==
    /\ Len(reqs) < MaxLive
    /\ Receive("POST /geocode", [text |-> text], "extract.getCache",
               Locals(None, None))
    /\ UNCHANGED <<now, ticks, cache, reports, resources, last, lastSet, served,
                   disasters, emitted, sockets, wire, inbox, ui>>

ReceiveGetResources(id, lat, lng) ==
    /\ Len(reqs) < MaxLive
    /\ Receive("GET /disasters/:id/resources", [id |-> id, lat |-> lat, lng |-> lng],
               IF Supplied(lat) /\ Supplied(lng) THEN "rpc" ELSE "query",
               Locals(None, None))
    /\ UNCHANGED <<now, ticks, cache, reports, resources, last, lastSet, served,
                   disasters, emitted, sockets, wire, inbox, ui>>

ReceivePostVerifyImage(id, image_url) ==
    /\ Len(reqs) < MaxLive
    /\ Receive("POST /disasters/:id/verify-image",
               [id |-> id, image_url |-> image_url], "verify.getCache",
               Locals(None, None))
    /\ UNCHANGED <<now, ticks, cache, reports, resources, last, lastSet, served,
                   disasters, emitted, sockets, wire, inbox, ui>>

PostGeocodeStep(i, o, llm, geo) ==
    /\ reqs[i].route = "POST /geocode"
    /\ ~Done(i)
    /\ \E n \in {PostGeocodeAwait(reqs[i], cache, now, o, llm, geo)} :
          /\ Advance(i, n)
          /\ cache' = n.rows
    /\ UNCHANGED <<now, ticks, reports, resources, last, lastSet, served,
                   disasters, emitted, sockets, wire, inbox, ui>>

GetResourcesStep(i, o, rpc) ==
    /\ reqs[i].route = "GET /disasters/:id/resources"
    /\ ~Done(i)
    /\ \E n \in {GetResourcesAwait(reqs[i], resources, o, rpc)} : Advance(i, n)
    /\ UNCHANGED <<now, ticks, cache, reports, resources, last, lastSet, served,
                   disasters, emitted, sockets, wire, inbox, ui>>

PostVerifyImageStep(i, o, resp, rnd) ==
    /\ reqs[i].route = "POST /disasters/:id/verify-image"
    /\ ~Done(i)
    /\ \E n \in {PostVerifyImageAwait(reqs[i], cache, now, o, resp, rnd)} :
          /\ Advance(i, n)
          /\ cache' = n.rows
          /\ reports' = IF reqs[i].pc = "update" /\ o # "throw"
                        THEN UpdateStatus(reports, reqs[i].args.image_url,
                                          reqs[i].loc.value[1].status, o)
                        ELSE reports
    /\ UNCHANGED <<now, ticks, resources, last, lastSet, served,
                   disasters, emitted, sockets, wire, inbox, ui>>

\* the ways the awaited call of request i can end: those of the collaborator
\* it is waiting for (at one of pcs), one fixed answer for the others
Pending(i, pcs, answers) ==
    IF reqs[i].pc \in pcs THEN answers ELSE {CHOOSE a \in answers : TRUE}

\* the awaited call request i is waiting for returns or fails
Await(i) ==
    /\ i <= Len(reqs)
    /\ \/ \E o \in Pending(i, {"extract.getCache", "extract.setCache",
                                 "geocode.getCache", "geocode.setCache"}, Awaited),
             llm \in Pending(i, {"extract.post"}, FaultLlmResponses),
             geo \in Pending(i, {"geocode.get"}, FaultGeoResponses) :
             PostGeocodeStep(i, o, llm, geo)
       \/ \E o \in Awaited :
             \E rpc \in Pending(i, {"rpc"}, RpcResults(resources, reqs[i].args.id)) :
                GetResourcesStep(i, o, rpc)
       \/ \E o \in Pending(i, {"verify.getCache", "verify.setCache", "update"},
                            Awaited),
             resp \in Pending(i, {"verify.generateContent"}, VisionResponses),
             rnd \in FaultRandoms :
             PostVerifyImageStep(i, o, resp, rnd)

NextLive ==
    \/ \E x \in Texts : ReceivePostGeocode(x)
    \/ \E id \in FaultIds, q \in {None, Some(<<"4", "1">>)} :
          ReceiveGetResources(id, q, q)
    \/ \E id \in FaultIds, u \in FaultUrls : ReceivePostVerifyImage(id, u)
    \/ \E i \in 1..MaxLive : Await(i)

\* every awaited call eventually returns or fails
SpecLive == Init /\ [][NextLive]_vars /\ \A i \in 1..MaxLive : WF_vars(Await(i))

-----------------------------------------------------------------------------
(* Claims about termination *)

\* C17: provided each awaited call eventually returns or fails, whatever
\* the cache store, the providers and the database answer, every request to
\* POST /geocode, the resources route and the verify-image route eventually
\* has sent a response, and at no time has it sent more than one: no
\* request ever has two responses, a handler has ended exactly when it has
\* one, and again and again every request received so far has its one.
C17_ExactlyOneResponse ==
    /\ [](\A i \in 1..Len(reqs) :
             /\ Cardinality(Responses(i)) <= 1
             /\ Done(i) <=> Cardinality(Responses(i)) = 1)
    /\ []<>(\A i \in 1..Len(reqs) : Cardinality(Responses(i)) = 1)

\* a POST /geocode ran through all six awaited calls to its 200, and a
\* verify-image request whose last awaited call was rejected got its 500
C17_Witness ==
    \E i, j \in 1..Len(reqs) :
        /\ reqs[i].route = "POST /geocode"
        /\ Done(i)
        /\ RowsOf(cache, "geocode_NY") # {}
        /\ \E k \in Responses(i) : reqs[i].fx[k].status = 200
        /\ reqs[j].route = "POST /disasters/:id/verify-image"
        /\ Done(j)
        /\ RowsOf(cache, "verify_image_u1") # {}
        /\ \E k \in Responses(j) : reqs[j].fx[k].status = 500

-----------------------------------------------------------------------------
(* Claims about the modes of the resource locator *)

\* the request carried this query parameter with a non-empty value
Given(q) == q # None /\ q # Some(<<>>)

\* C21: the proximity query is attempted exactly when lat and lng are both
\* given non-empty; otherwise only the plain filter by disaster_id runs; a
\* 200 response carries one result set, the proximity query's when it
\* succeeded and the plain filter's otherwise.
C21_ProximityIffBothGiven ==
    last.op = "GET /disasters/:id/resources" =>
        /\ IsSome(last.rpcArgs) <=> (Given(last.lat) /\ Given(last.lng))
        /\ ~IsSome(last.rpcArgs) => last.filtered
        /\ last.filtered <=> (~IsSome(last.rpcArgs) \/ last.rpc.error)
        /\ last.status = 200 =>
              last.body = IF IsSome(last.rpcArgs) /\ ~last.rpc.error
                          THEN last.rpc.data
                          ELSE {r \in resources : r.disaster_id = last.id}
        /\ last.status # 200 =>
              /\ last.filtered
              /\ last.qry = "error"
              /\ last.body = FetchFailed

\* lat was given and lng was not; the proximity query, which would have
\* returned one resource, was not attempted, and the request was answered
\* with the incident's two resources
C21_Witness ==
    /\ last.op = "GET /disasters/:id/resources"
    /\ last.lat = Some(<<"4", "1">>)
    /\ last.lng \in {None, Some(<<>>)}
    /\ ~last.rpc.error
    /\ Cardinality(last.rpc.data) = 1
    /\ last.rpcArgs = None
    /\ last.status = 200
    /\ Cardinality(last.body) = 2

-----------------------------------------------------------------------------
(* Claims about repeated verifications of one image *)

ReadAt(i) == reqs[i].fx[CHOOSE k \in At(i, "get") : TRUE].at
SetAt(i) == reqs[i].fx[CHOOSE k \in At(i, "set") : TRUE].at

\* call j of verifyImageWithGemini began after call i, for the same image,
\* had computed, stored and returned its result, and read the cache within
\* 60 minutes of that write
FurtherCall(i, j) ==
    /\ i \in Sets
    /\ Done(i)
    /\ reqs[i].route = "verifyImageWithGemini"
    /\ reqs[j].route = "verifyImageWithGemini"
    /\ reqs[j].args.key = reqs[i].args.key
    /\ i \in reqs[j].args.began
    /\ At(j, "get") # {}
    /\ ReadAt(j) < SetAt(i) + DefaultTtlMinutes * 60 * 1000

\* C22 as stated: every further call within the TTL window of a successful
\* call returns that call's result, without the provider being invoked.
C22_StableWhileCached ==
    \A i, j \in 1..Len(reqs) :
        FurtherCall(i, j) =>
            /\ ~reqs[j].loc.missed
            /\ Done(j)
            /\ Returned(j) = Returned(i)

\* C22, amended: every further call within the TTL window of a successful
\* call is answered from the cache, without the provider and without a new
\* score: with the result of that call as long as no call that overlapped it
\* has stored its own result for the image afterwards, and otherwise with
\* the result of one of the calls that stored theirs.
C22_StableUntilOverwritten ==
    \A i, j \in 1..Len(reqs) :
        FurtherCall(i, j) =>
            /\ ~reqs[j].loc.missed
            /\ Done(j)
            /\ j \notin Sets
            /\ \E k \in Sets :
                  /\ reqs[k].args.key = reqs[j].args.key
                  /\ Returned(j) = Returned(k)
            /\ (\A k \in Sets : reqs[k].args.key = reqs[i].args.key => Nth(k) <= Nth(i))
                  => Returned(j) = Returned(i)

\* a verification stored score 9 at time 0; a call made half an hour later,
\* with no other call in between, returned the same result from the cache
C22_Witness ==
    \E i, j \in 1..Len(reqs) :
        /\ FurtherCall(i, j)
        /\ Sets = {i}
        /\ SetAt(i) = 0
        /\ ReadAt(j) = 30 * 60 * 1000
        /\ Returned(i)[1].score = 9
        /\ Returned(j) = Returned(i)
        /\ ~reqs[j].loc.missed

-----------------------------------------------------------------------------
(* Claims about the sharing of geocoding entries *)

\* C23: once any caller has resolved a place name, every caller that reaches
\* geocodeLocation for that name within 60 minutes, directly with
\* location_name or through POST /geocode for whatever text, gets the same
\* coordinates, and the geocoding provider is not called.
C23_GeocodeSharedByName ==
    /\ (last.op = "geocodeLocation" /\ IsSome(served.geo[last.arg])
           /\ IsSome(last.expect)) =>
          /\ last.value = last.expect
          /\ last.calls = <<>>
    /\ (last.op = "POST /geocode" /\ IsSome(last.expectGeo)) =>
          /\ Len(last.stages) = 2
          /\ last.stages[2].value = last.expectGeo
          /\ ~Called(last.calls, "nominatim")
          /\ last.status = 200
          /\ last.body.coordinates = last.expectGeo[1]

\* the second text was posted for the first time, so the language model was
\* asked; the place it named had been resolved by a request for the first
\* text, and its coordinates came from the cache
C23_Witness ==
    /\ last.op = "POST /geocode"
    /\ last.arg = "NY under water"
    /\ last.calls = <<"gemini">>
    /\ IsSome(last.expectGeo)
    /\ IsSome(served.req["Flooding near NY"])
    /\ last.body = [locationName |-> "NY",
                    coordinates |-> served.req["Flooding near NY"][1].value.coordinates]

-----------------------------------------------------------------------------
(* Claims about cache keys *)

\* call j was answered from the cache
Hit(j) == Done(j) /\ ~reqs[j].loc.missed

\* C24: two lookups address the same cache entry exactly when they come from
\* the same component with the same raw input, compared as strings; so a
\* call answered from the cache receives what a call of its own component
\* with its own input stored, and every entry lies under the key of the call
\* that stored it.
C24_KeysInjective ==
    /\ \A i, j \in 1..Len(reqs) :
          (reqs[i].args.key = reqs[j].args.key)
              <=> (reqs[i].route = reqs[j].route /\ reqs[i].args.arg = reqs[j].args.arg)
    /\ \A j \in 1..Len(reqs) :
          Hit(j) =>
              \E i \in Sets :
                  /\ reqs[i].route = reqs[j].route
                  /\ reqs[i].args.arg = reqs[j].args.arg
                  /\ Returned(i) = Returned(j)
    /\ \A k \in DOMAIN cache : \A r \in cache[k] :
          \E i \in Sets : reqs[i].args.key = k /\ Some(r.value) = Returned(i)

\* geocodeLocation("NY") stored its coordinates; after that
\* geocodeLocation("ny") and extractLocationWithGemini("NY") both read the
\* cache and missed
C24_Witness ==
    \E i, j, k \in 1..Len(reqs) :
        /\ i < j /\ i < k
        /\ reqs[i].route = "geocodeLocation" /\ reqs[i].args.arg = "NY"
        /\ i \in Sets
        /\ reqs[j].route = "geocodeLocation" /\ reqs[j].args.arg = "ny"
        /\ reqs[k].route = "extractLocationWithGemini" /\ reqs[k].args.arg = "NY"
        /\ reqs[j].loc.missed /\ reqs[k].loc.missed
        /\ j \notin Sets /\ k \notin Sets
        /\ DOMAIN cache = {"geocode_NY"}

-----------------------------------------------------------------------------
(* Claims about the status of verified reports *)

\* C25: a verify-image request for url u that is not answered from the cache
\* and whose provider call fails sets every report with image_url u to
\* pending, whatever its status was, verified included; and the status of a
\* report is never anything but pending or verified.
C25_FailedVerificationResets ==
    /\ [][(last'.op = VerifyOp /\ last' # last /\ last'.vision = "error"
              /\ last'.calls = <<"gemini-pro">>) =>
            /\ last'.body = Degraded
            /\ Len(reports') = Len(reports)
            /\ \A i \in 1..Len(reports) :
                  reports'[i].verification_status =
                      IF reports[i].image_url = Some(last'.arg)
                      THEN "pending"
                      ELSE reports[i].verification_status]_vars
    /\ [](\A i \in 1..Len(reports) :
             reports[i].verification_status \in {"pending", "verified"})

\* a report that a verification had set to verified went back to pending
\* when, the cache entry having expired, a verification of its image failed
C25_Witness ==
    /\ last.op = VerifyOp
    /\ last.vision = "error"
    /\ last.calls = <<"gemini-pro">>
    /\ last.reset # {}
    /\ \A i \in last.reset :
          /\ reports[i].image_url = Some(last.arg)
          /\ reports[i].verification_status = "pending"

-----------------------------------------------------------------------------
(* Claims about the coordinates of an incident *)

\* request i has its write confirmed in this step
Writes(i) ==
    /\ reqs[i].route \in {"POST /disasters", "PUT /disasters/:id"}
    /\ Confirmed(i) = {}
    /\ \E k \in 1..Len(reqs'[i].fx) :
          reqs'[i].fx[k].kind = "write" /\ reqs'[i].fx[k].ok

WrittenId(i) == reqs'[i].fx[CHOOSE k \in 1..Len(reqs'[i].fx) :
                               reqs'[i].fx[k].kind = "write"].id

\* C26: whatever the geocoder answers, and without a location_name, a
\* create or update goes on to its write and never ends at the geocoding
\* step; when the write is confirmed, the row's location is non-null exactly
\* when the geocoder returned coordinates in this request, and is then the
\* point of those coordinates, so an update without coordinates stores null
\* over whatever was there.
C26_GeocodingDeterminesLocation ==
    /\ [][\A i \in 1..Len(reqs) :
            (reqs[i].pc = "geocode" /\ reqs'[i] # reqs[i]) =>
                /\ reqs'[i].pc \in {"insert", "select"}
                /\ reqs'[i].fx = <<>>]_vars
    /\ [][\A i \in 1..Len(reqs) :
            Writes(i) =>
                /\ WrittenId(i) \in DOMAIN disasters'
                /\ disasters'[WrittenId(i)].location = Point(reqs[i].loc.coords)
                /\ IsSome(disasters'[WrittenId(i)].location)
                      <=> IsSome(reqs[i].loc.coords)
                /\ ~Truthy(reqs[i].args.location_name) =>
                      disasters'[WrittenId(i)].location = None]_vars

\* the incident was created with the coordinates of NY; an update whose
\* location_name the geocoder could not resolve was written after that, and
\* the incident has no coordinates
C26_Witness ==
    \E i, j \in 1..Len(reqs) :
        /\ reqs[i].route = "POST /disasters"
        /\ \E k \in Confirmed(i) : reqs[i].fx[k].id = "d1"
        /\ IsSome(reqs[i].loc.coords)
        /\ reqs[j].route = "PUT /disasters/:id"
        /\ reqs[j].args.existed
        /\ reqs[j].args.location_name = Some("LA")
        /\ Confirmed(j) # {}
        /\ reqs[j].loc.coords = None
        /\ "d1" \in DOMAIN disasters
        /\ Len(disasters["d1"].audit_trail) = 2
        /\ disasters["d1"].location = None

\* C27: the listener of 'social_media_updated' replaces the client's list with
\* the event's items and leaves the selection alone, whichever incident the
\* event names and whichever incident, if any, the client has selected.
Handled(c) == inbox'[c][Len(inbox'[c])]

C27_AppliesEveryEvent ==
    [][\A c \in Clients :
          (/\ Len(inbox'[c]) = Len(inbox[c]) + 1
           /\ emitted[Handled(c)].name = "social_media_updated")
          => /\ ui'[c].socialMedia = emitted[Handled(c)].payload.data
             /\ ui'[c].selectedDisaster = ui[c].selectedDisaster]_vars

\* a client that selected d1 and was shown the answer to its own request now
\* shows the items of the event emitted for another client's request for d2
C27_Witness ==
    \E c, d \in Clients : \E i, j \in 1..Len(reqs) :
        /\ c # d
        /\ ui[c].selectedDisaster = Some("d1")
        /\ ui[c].fetch = None
        /\ reqs[i].args.id = "d1"
        /\ ui[d].selectedDisaster = Some("d2")
        /\ reqs[j].args.id = "d2"
        /\ i < j
        /\ inbox[c] # <<>>
        /\ emitted[inbox[c][Len(inbox[c])]].by = j
        /\ emitted[inbox[c][Len(inbox[c])]].payload.disaster_id = "d2"
        /\ ui[c].socialMedia = emitted[inbox[c][Len(inbox[c])]].payload.data
        /\ ui[c].socialMedia # Body(i)

====
